---------------------------- MODULE Spec2Model ----------------------------
(***************************************************************************)
(* Model of the ergonomic scoring engine: the REBA calculator              *)
(* (reba-calculator), the weight detection utilities (weight-detection:    *)
(* the posture/weight estimator, the weight adjusted RULA/REBA scores and  *)
(* the RULA lookup tables).                                                *)
(*                                                                         *)
(* Numbers.  Component scores and table entries are integers.  Weights are *)
(* whole kilograms (every band boundary of the code is a whole number, so  *)
(* every band and every boundary has an integer representative).           *)
(* Multipliers are kept in tenths (1.3 is 13).  A JavaScript value that    *)
(* may be undefined is an option set: {} is undefined, {v} is the value v. *)
(***************************************************************************)
EXTENDS Integers, Sequences, FiniteSets, TLC

VARIABLES
    fn,                \* table lookup last called ("none" before any call)
    args,              \* <<a, b, c>>: the component scores handed to the lookup
    ret,               \* the lookup's outcome: a JS value record
    originalScore,     \* the base RULA/REBA score object handed to the adjuster
    weightEstimation,  \* the WeightEstimation handed to the adjuster
    manualWeight,      \* the optional manual weight: {} when not supplied
    adjusted,          \* what the adjuster returned (NotCalled before the call)
    calls,             \* how many times the base score has been adjusted
    keypoints,         \* the frame's keypoint array: {} when absent, else {array}
    rebaScore,         \* what calculateREBA returned (NotCalled before the call)
    estimation,        \* what estimateWeightFromPosture returned (NotCalled before)
    elbowAngles,       \* <<left, right>>: what calculateElbowAngle returned to
                       \* analyzePosture in that call (<<>> when it was not called)
    selectedDetectedObject, \* ManualWeightInput: {} (null) or {object id}
    customWeight,      \* ManualWeightInput: the number in the weight field
    manualWeights,     \* RebaRecordingPanel: the ManualWeight objects added
    analysisMode,      \* RebaRecordingPanel: 'normal', 'estimated' or 'manual'
    selectedFrame,     \* the frame handed to getCurrentRebaScore
    currentRebaScore,  \* what getCurrentRebaScore returned (NotCalled before)
    now,               \* Date.now(), in ms
    lastRecommendationTime,  \* RecommendationEngine.lastRecommendationTime
    shownRecommendations,    \* RecommendationEngine.shownRecommendations
    currentRecommendations,  \* RecommendationEngine.currentRecommendations
    shownTimers,       \* pending timeouts of markRecommendationShown: [id, due]
    props,             \* the props of the mounted RecommendationOverlay
    newRecommendations, \* what the latest generateRecommendations call returned
    served,            \* how the latest handler's generateRecommendations call
                       \* was answered: "recomputed", "cached", or "none" when
                       \* the handler made no call
    passedFilters,     \* the candidates that passed the two filters in the
                       \* latest recomputation, in the order they were pushed
    dismissedRecommendations,  \* the overlay's dismissedRecommendations
    dismissTimers,     \* pending timeouts of handleDismissRecommendation
    recommendations    \* the overlay's recommendations: the cards displayed

lookupVars == <<fn, args, ret>>
adjustVars == <<originalScore, weightEstimation, manualWeight, adjusted, calls>>
poseVars == <<keypoints, rebaScore, estimation, elbowAngles>>
panelVars == <<selectedDetectedObject, customWeight, manualWeights, analysisMode,
               selectedFrame, currentRebaScore>>
engineVars == <<lastRecommendationTime, shownRecommendations,
                currentRecommendations, shownTimers, newRecommendations, served,
                passedFilters>>
overlayVars == <<props, dismissedRecommendations, dismissTimers, recommendations>>
recVars == <<now, engineVars, overlayVars>>

vars == <<fn, args, ret, originalScore, weightEstimation, manualWeight, adjusted,
          calls, keypoints, rebaScore, estimation, elbowAngles,
          selectedDetectedObject, customWeight, manualWeights, analysisMode,
          selectedFrame, currentRebaScore, now, lastRecommendationTime,
          shownRecommendations, currentRecommendations, shownTimers, props,
          newRecommendations, served, passedFilters, dismissedRecommendations,
          dismissTimers, recommendations>>

-----------------------------------------------------------------------------
(* Bounds of the model *)

\* component scores handed to the lookups range over (1 - Below) .. MaxScoreArg
Below == 2
MaxScoreArg == 13
\* the third argument of a lookup ranges over (1 - Below) .. MaxThirdArg
MaxThirdArg == 9
\* weights (kg) handed to the adjusters range over 0 .. MaxWeight
MaxWeight == 42
\* group scores of a base REBA score range over 1 .. MaxGroupScore
MaxGroupScore == 12
\* final scores of a base RULA score range over 1 .. MaxRulaBase
MaxRulaBase == 7
\* a base score is adjusted at most MaxCalls times
MaxCalls == 2
\* the left elbow and the left wrist move Reach grid steps around their parent joint
Reach == 1
\* the grid step of the arm joints, in hundredths of the image plane
StepX == 10
StepY == 15

-----------------------------------------------------------------------------
(* JavaScript helpers *)

Max(a, b) == IF a >= b THEN a ELSE b
Min(a, b) == IF a <= b THEN a ELSE b
Abs(a) == IF a >= 0 THEN a ELSE 0 - a

\* arr[i] for a 0-based index i: {} (undefined) outside the array
At(arr, i) == IF i >= 0 /\ i < Len(arr) THEN {arr[i + 1]} ELSE {}

\* the value of a non-empty option set
The(opt) == CHOOSE v \in opt : TRUE

\* opt || d on numbers: undefined and 0 are falsy
OrElse(opt, d) == IF opt = {} \/ opt = {0} THEN d ELSE The(opt)

\* a JS outcome as a record
Num(v) == [kind |-> "number", v |-> v]
Undef == [kind |-> "undefined", v |-> 0]
Throw == [kind |-> "throw", v |-> 0]

\* null, a call that has not happened yet, and a call that threw
Null == [type |-> "null"]
NotCalled == [type |-> "notCalled"]
Thrown == [type |-> "throw"]

-----------------------------------------------------------------------------
(* reba-calculator: the scoring tables *)

REBA_TABLE_A ==
    << <<1, 2, 3, 4>>,
       <<2, 3, 4, 5>>,
       <<2, 4, 5, 6>>,
       <<3, 5, 6, 7>>,
       <<4, 6, 7, 8>> >>

REBA_TABLE_B ==
    << <<1, 2, 2>>,
       <<1, 2, 3>>,
       <<3, 4, 5>>,
       <<4, 5, 6>>,
       <<6, 7, 8>>,
       <<7, 8, 9>> >>

REBA_TABLE_C ==
    << <<1, 1, 1, 2, 3, 3, 4, 5, 6, 7, 7, 7>>,
       <<1, 2, 2, 3, 4, 4, 5, 6, 6, 7, 7, 8>>,
       <<2, 3, 3, 3, 4, 5, 6, 7, 7, 8, 8, 8>>,
       <<3, 4, 4, 4, 5, 6, 7, 8, 8, 9, 9, 9>>,
       <<4, 4, 4, 5, 6, 7, 8, 8, 9, 9, 9, 9>>,
       <<6, 6, 6, 7, 8, 8, 9, 9, 10, 10, 10, 10>>,
       <<7, 7, 7, 8, 9, 9, 9, 10, 10, 11, 11, 11>>,
       <<8, 8, 8, 9, 10, 10, 10, 10, 10, 11, 11, 11>>,
       <<9, 9, 9, 10, 10, 10, 11, 11, 11, 12, 12, 12>>,
       <<10, 10, 10, 11, 11, 11, 11, 12, 12, 12, 12, 12>>,
       <<11, 11, 11, 11, 12, 12, 12, 12, 12, 12, 12, 12>>,
       <<12, 12, 12, 12, 12, 12, 12, 12, 12, 12, 12, 12>> >>

\* table[i]?.[j]: undefined when either index is outside the table
At2(table, i, j) ==
    LET row == At(table, i)
    IN  IF row = {} THEN {} ELSE At(The(row), j)

(* reba-calculator: the table lookups *)

reba_legsAdjustedIndex(legs) ==
    IF legs = 1 THEN 0 ELSE IF legs = 2 THEN 1 ELSE Min(3, legs - 1)

\* mutant: the trunk score shifts the row
reba_getScoreA_trunkAxis(neck, trunk, legs) ==
    LET neckIndex == Max(0, Min(4, neck - 1))
        trunkIndex == Max(0, Min(2, trunk - 1))
        legsAdjustedIndex == reba_legsAdjustedIndex(legs)
    IN  OrElse(At2(REBA_TABLE_A, Min(4, neckIndex + trunkIndex), legsAdjustedIndex), 1)

reba_getScoreA(neck, trunk, legs) ==
    LET neckIndex == Max(0, Min(4, neck - 1))
        trunkIndex == Max(0, Min(2, trunk - 1))
        legsAdjustedIndex == reba_legsAdjustedIndex(legs)
    IN  OrElse(At2(REBA_TABLE_A, neckIndex, legsAdjustedIndex), 1)

\* mutant: the upper clamp of the upper arm index is missing
reba_getScoreB_noUpperClamp(upperArm, lowerArm, wrist) ==
    LET upperArmIndex == Max(0, upperArm - 1)
        wristIndex == Max(0, Min(2, wrist - 1))
    IN  OrElse(At2(REBA_TABLE_B, upperArmIndex, wristIndex), 1)

reba_getScoreB(upperArm, lowerArm, wrist) ==
    LET upperArmIndex == Max(0, Min(5, upperArm - 1))
        lowerArmIndex == Max(0, Min(1, lowerArm - 1))
        wristIndex == Max(0, Min(2, wrist - 1))
    IN  OrElse(At2(REBA_TABLE_B, upperArmIndex, wristIndex), 1)

\* mutant: a "- 1" taken off the table entry as well, and no lower clamp
reba_getFinalScore_entryMinusOne(scoreA, scoreB, loadCoupling, activity) ==
    LET scoreAIndex == Max(0, Min(11, scoreA - 1))
        scoreBIndex == Max(0, Min(11, scoreB - 1))
        finalScore == OrElse(At2(REBA_TABLE_C, scoreAIndex, scoreBIndex), 1) - 1
                        + loadCoupling + activity
    IN  Min(15, finalScore)

reba_getFinalScore(scoreA, scoreB, loadCoupling, activity) ==
    LET scoreAIndex == Max(0, Min(11, scoreA - 1))
        scoreBIndex == Max(0, Min(11, scoreB - 1))
        finalScore == OrElse(At2(REBA_TABLE_C, scoreAIndex, scoreBIndex), 1)
                        + loadCoupling + activity
    IN  Max(1, Min(15, finalScore))

-----------------------------------------------------------------------------
(* weight-detection: the RULA scoring tables and their lookups *)

scoreATable ==
    << << <<1,2,2,2,2,3,3,3>>, <<2,2,2,2,3,3,3,3>>, <<2,3,3,3,3,3,4,4>> >>,
       << <<2,2,2,2,3,3,3,3>>, <<2,2,2,2,3,3,3,3>>, <<3,3,3,3,3,4,4,4>> >>,
       << <<2,3,3,3,3,4,4,4>>, <<3,3,3,3,3,4,4,4>>, <<3,4,4,4,4,4,5,5>> >>,
       << <<3,3,3,4,4,4,5,5>>, <<3,3,4,4,4,4,5,5>>, <<4,4,4,4,5,5,5,6>> >>,
       << <<4,4,4,4,4,5,5,5>>, <<4,4,4,4,4,5,5,5>>, <<4,4,4,5,5,5,6,6>> >>,
       << <<6,6,6,6,6,7,7,7>>, <<6,6,6,6,6,7,7,7>>, <<6,6,7,7,7,7,7,8>> >> >>

scoreBTable ==
    << <<1,2,3,3,4,5>>,
       <<2,2,3,4,5,5>>,
       <<3,3,3,4,5,6>>,
       <<3,3,4,4,5,6>>,
       <<4,5,5,5,6,7>>,
       <<4,5,5,6,6,7>> >>

finalScoreTable ==
    << <<1,1,1,2,3,3,4>>,
       <<1,2,2,3,3,3,4>>,
       <<2,2,2,3,3,3,4>>,
       <<3,3,3,3,3,4,4>>,
       <<4,4,4,4,4,4,5>>,
       <<4,4,4,4,4,4,5>>,
       <<5,5,5,5,5,5,6>>,
       <<5,5,5,5,5,6,6>> >>

\* table[i][j]: a TypeError when table[i] is undefined, undefined when only
\* the last index is outside
Index2(table, i, j) ==
    LET row == At(table, i)
    IN  IF row = {} THEN Throw
        ELSE IF At(The(row), j) = {} THEN Undef
        ELSE Num(The(At(The(row), j)))

\* table[i][j][k], likewise
Index3(table, i, j, k) ==
    LET plane == At(table, i)
    IN  IF plane = {} THEN Throw
        ELSE IF At(The(plane), j) = {} THEN Throw
        ELSE Index2(The(plane), j, k)

rula_getScoreA(upperArm, lowerArm, wrist) ==
    LET upperArmIdx == Max(0, Min(5, upperArm - 1))
        lowerArmIdx == Max(0, Min(2, lowerArm - 1))
        wristIdx == Max(0, Min(7, wrist - 1))
    IN  Index3(scoreATable, upperArmIdx, lowerArmIdx, wristIdx)

rula_getScoreB(neck, trunk) ==
    LET neckIdx == Max(0, Min(5, neck - 1))
        trunkIdx == Max(0, Min(5, trunk - 1))
    IN  Index2(scoreBTable, neckIdx, trunkIdx)

rula_getFinalScore(scoreA, scoreB) ==
    LET scoreAIdx == Max(0, Min(7, scoreA - 1))
        scoreBIdx == Max(0, Min(6, scoreB - 1))
    IN  Index2(finalScoreTable, scoreAIdx, scoreBIdx)

-----------------------------------------------------------------------------
(* reba-calculator: risk and action levels, and the score object *)

reba_getRiskLevel(score) ==
    IF score = 1 THEN "Negligible"
    ELSE IF score >= 2 /\ score <= 3 THEN "Low"
    ELSE IF score >= 4 /\ score <= 7 THEN "Medium"
    ELSE IF score >= 8 /\ score <= 10 THEN "High"
    ELSE "Very High"

reba_getActionLevel(score) ==
    IF score = 1 THEN "None necessary"
    ELSE IF score >= 2 /\ score <= 3 THEN "May be necessary"
    ELSE IF score >= 4 /\ score <= 7 THEN "Necessary"
    ELSE IF score >= 8 /\ score <= 10 THEN "Necessary soon"
    ELSE "Necessary now"

\* the score object calculateREBA builds from its two group scores
rebaScoreObject(scoreA, scoreB) ==
    LET finalScore == reba_getFinalScore(scoreA, scoreB, 0, 0)
    IN  [type |-> "reba",
         scoreA |-> scoreA,
         scoreB |-> scoreB,
         finalScore |-> finalScore,
         riskLevel |-> reba_getRiskLevel(finalScore),
         actionLevel |-> reba_getActionLevel(finalScore)]

-----------------------------------------------------------------------------
(* weight-detection: the weight adjusted scores *)

\* {...base, ...overrides}
Spread(base, overrides) ==
    [k \in (DOMAIN base) \cup (DOMAIN overrides) |->
        IF k \in DOMAIN overrides THEN overrides[k] ELSE base[k]]

\* mutant: Math.floor instead of Math.round
RoundTimes_floor(x, m10) == (x * m10) \div 10

\* Math.round(x * m) for a multiplier m given in tenths
RoundTimes(x, m10) == (x * m10 + 5) \div 10

\* Math.ceil(x * m) for a multiplier m given in tenths
CeilTimes(x, m10) == (x * m10 + 9) \div 10

scoreMatrix ==
    << <<1, 1, 1, 2, 3, 3, 4, 5, 6, 7, 7, 7>>,
       <<1, 2, 2, 3, 4, 4, 5, 6, 6, 7, 7, 8>>,
       <<2, 3, 3, 3, 4, 5, 6, 7, 7, 8, 8, 8>>,
       <<3, 4, 4, 4, 5, 6, 7, 8, 8, 9, 9, 9>>,
       <<4, 4, 4, 5, 6, 7, 8, 8, 9, 9, 9, 9>>,
       <<6, 6, 6, 7, 8, 8, 9, 9, 10, 10, 10, 10>>,
       <<7, 7, 7, 8, 9, 9, 9, 10, 10, 11, 11, 11>>,
       <<8, 8, 8, 9, 10, 10, 10, 10, 10, 11, 11, 11>>,
       <<9, 9, 9, 10, 10, 10, 11, 11, 11, 12, 12, 12>>,
       <<10, 10, 10, 11, 11, 11, 11, 12, 12, 12, 12, 12>>,
       <<11, 11, 11, 11, 12, 12, 12, 12, 12, 12, 12, 12>>,
       <<12, 12, 12, 12, 12, 12, 12, 12, 12, 12, 12, 12>> >>

\* mutant: the scores are used as indices without the "- 1"
getRebaFinalScore_offByOne(scoreA, scoreB) ==
    LET aIndex == Min(Max(scoreA, 0), 11)
        bIndex == Min(Max(scoreB, 0), 11)
    IN  scoreMatrix[aIndex + 1][bIndex + 1]

\* the indices are clamped to 0..11, so scoreMatrix[aIndex][bIndex] is defined
getRebaFinalScore(scoreA, scoreB) ==
    LET aIndex == Min(Max(scoreA - 1, 0), 11)
        bIndex == Min(Max(scoreB - 1, 0), 11)
    IN  scoreMatrix[aIndex + 1][bIndex + 1]

getRebaRiskLevel(score) ==
    IF score = 1 THEN "Negligible Risk"
    ELSE IF score <= 3 THEN "Low Risk"
    ELSE IF score <= 7 THEN "Medium Risk"
    ELSE IF score <= 10 THEN "High Risk"
    ELSE "Very High Risk"

getRebaActionLevel(score) ==
    IF score = 1 THEN "None necessary"
    ELSE IF score <= 3 THEN "May be necessary"
    ELSE IF score <= 7 THEN "Necessary"
    ELSE IF score <= 10 THEN "Necessary soon"
    ELSE "Necessary now"

\* mutant: the new fields are assigned to the argument, which is returned
\* (Object.assign(original, {...}))
argumentAfterCall_assigned(original, returned) == returned

\* The object the caller passed, after the call.  Both adjusters build their
\* result with an object literal {...original, ...}, a new object, and no
\* statement of theirs assigns to a property of the argument.
argumentAfterCall(original, returned) == original

\* manualWeight || weightEstimation.estimatedWeight
rebaEffectiveWeight(we, manual) ==
    OrElse(manual, we.estimatedWeight)

\* mutant: the multipliers of the two upper bands are swapped
rebaWeightMultiplier_swapped(effectiveWeight) ==
    IF effectiveWeight <= 5 THEN 10
    ELSE IF effectiveWeight <= 10 THEN 11
    ELSE IF effectiveWeight <= 20 THEN 13
    ELSE IF effectiveWeight <= 40 THEN 18
    ELSE 15

\* the REBA weight multiplier, in tenths
rebaWeightMultiplier(effectiveWeight) ==
    IF effectiveWeight <= 5 THEN 10
    ELSE IF effectiveWeight <= 10 THEN 11
    ELSE IF effectiveWeight <= 20 THEN 13
    ELSE IF effectiveWeight <= 40 THEN 15
    ELSE 18

calculateWeightAdjustedReba(originalReba, we, manual) ==
    IF originalReba = Null THEN Null
    ELSE
    LET effectiveWeight == rebaEffectiveWeight(we, manual)
        weightMultiplier == rebaWeightMultiplier(effectiveWeight)
        adjustedScoreA == Min(12, RoundTimes(originalReba.scoreA, weightMultiplier))
        adjustedScoreB == Min(12, RoundTimes(originalReba.scoreB, weightMultiplier))
        adjustedFinalScore == Min(15, getRebaFinalScore(adjustedScoreA, adjustedScoreB))
    IN  Spread(originalReba,
               [scoreA |-> adjustedScoreA,
                scoreB |-> adjustedScoreB,
                finalScore |-> adjustedFinalScore,
                riskLevel |-> getRebaRiskLevel(adjustedFinalScore),
                actionLevel |-> getRebaActionLevel(adjustedFinalScore),
                effectiveWeight |-> effectiveWeight,
                weightMultiplier |-> weightMultiplier,
                isWeightAdjusted |-> TRUE])

\* manualWeight || weightEstimation.estimatedWeight || 0
rulaEffectiveWeight(we, manual) ==
    OrElse({OrElse(manual, we.estimatedWeight)}, 0)

\* mutant: the multipliers of the two upper bands are swapped
rulaWeightMultiplier_swapped(effectiveWeight) ==
    IF effectiveWeight > 23 THEN 20
    ELSE IF effectiveWeight > 10 THEN 30
    ELSE IF effectiveWeight > 5 THEN 15
    ELSE 10

\* mutant: the boundaries 5, 10 and 23 fall in the upper band
rulaWeightMultiplier_inclusive(effectiveWeight) ==
    IF effectiveWeight >= 23 THEN 30
    ELSE IF effectiveWeight >= 10 THEN 20
    ELSE IF effectiveWeight >= 5 THEN 15
    ELSE 10

\* the RULA weight multiplier, in tenths
rulaWeightMultiplier(effectiveWeight) ==
    IF effectiveWeight > 23 THEN 30
    ELSE IF effectiveWeight > 10 THEN 20
    ELSE IF effectiveWeight > 5 THEN 15
    ELSE 10

rulaAdjustedRiskLevel(adjustedFinalScore) ==
    IF adjustedFinalScore <= 2 THEN "Low Risk"
    ELSE IF adjustedFinalScore <= 4 THEN "Medium Risk"
    ELSE IF adjustedFinalScore <= 6 THEN "High Risk"
    ELSE "Critical Risk"

\* mutant: the cap at 7 is missing
rulaAdjustedFinalScore_noCap(finalScore, weightMultiplier) ==
    CeilTimes(finalScore, weightMultiplier)

\* Math.min(7, Math.ceil(originalRula.finalScore * weightMultiplier))
rulaAdjustedFinalScore(finalScore, weightMultiplier) ==
    Min(7, CeilTimes(finalScore, weightMultiplier))

\* mutant: the group scores are rescaled as well, as the REBA adjuster does
calculateWeightAdjustedRula_rescalesGroups(originalRula, we, manual) ==
    IF originalRula = Null THEN originalRula
    ELSE
    LET effectiveWeight == rulaEffectiveWeight(we, manual)
        weightMultiplier == rulaWeightMultiplier(effectiveWeight)
        adjustedFinalScore == rulaAdjustedFinalScore(originalRula.finalScore, weightMultiplier)
    IN  Spread(originalRula,
               [scoreA |-> CeilTimes(originalRula.scoreA, weightMultiplier),
                scoreB |-> CeilTimes(originalRula.scoreB, weightMultiplier),
                finalScore |-> adjustedFinalScore,
                effectiveWeight |-> effectiveWeight,
                weightMultiplier |-> weightMultiplier,
                riskLevel |-> rulaAdjustedRiskLevel(adjustedFinalScore)])

calculateWeightAdjustedRula(originalRula, we, manual) ==
    IF originalRula = Null THEN originalRula
    ELSE
    LET effectiveWeight == rulaEffectiveWeight(we, manual)
        weightMultiplier == rulaWeightMultiplier(effectiveWeight)
        adjustedFinalScore == rulaAdjustedFinalScore(originalRula.finalScore, weightMultiplier)
    IN  Spread(originalRula,
               [finalScore |-> adjustedFinalScore,
                effectiveWeight |-> effectiveWeight,
                weightMultiplier |-> weightMultiplier,
                riskLevel |-> rulaAdjustedRiskLevel(adjustedFinalScore)])

rula_getRiskLevel(finalScore) ==
    IF finalScore <= 2 THEN "Acceptable"
    ELSE IF finalScore <= 4 THEN "Investigate"
    ELSE IF finalScore <= 6 THEN "Investigate Soon"
    ELSE "Investigate Immediately"

\* a base RULA score object, as the assessment panel reads it: the body part
\* scores c = <<upperArm, lowerArm, wrist, neck, trunk>>, their group scores,
\* and the given final score
rulaScoreObject(c, finalScore) ==
    [type |-> "rula",
     upperArm |-> c[1],
     lowerArm |-> c[2],
     wrist |-> c[3],
     neck |-> c[4],
     trunk |-> c[5],
     scoreA |-> rula_getScoreA(c[1], c[2], c[3]).v,
     scoreB |-> rula_getScoreB(c[4], c[5]).v,
     finalScore |-> finalScore,
     riskLevel |-> rula_getRiskLevel(finalScore)]

-----------------------------------------------------------------------------
(* Geometry.  Coordinates are hundredths of the normalized image plane (0.05 *)
(* is 5) and are handled exactly.  Angles are millionths of a degree.        *)

\* d degrees
Deg(d) == d * 1000000

\* atan(2^-i) for i = 0 .. 23, in millionths of a degree
AtanTable ==
    <<45000000, 26565051, 14036243, 7125016, 3576334, 1789911, 895174, 447614,
      223811, 111906, 55953, 27976, 13988, 6994, 3497, 1749, 874, 437, 219,
      109, 55, 27, 14, 7>>

\* CORDIC in vectoring mode: rotates (x, y) onto the x axis by the angles of
\* AtanTable and accumulates the rotation in z; p is 2^(i - 1)
RECURSIVE Cordic(_, _, _, _, _)
Cordic(x, y, z, i, p) ==
    IF i > Len(AtanTable) THEN z
    ELSE IF y >= 0
         THEN Cordic(x + (y \div p), y - (x \div p), z + AtanTable[i], i + 1, 2 * p)
         ELSE Cordic(x - (y \div p), y + (x \div p), z - AtanTable[i], i + 1, 2 * p)

\* atan(y / x) in millionths of a degree for x > 0, y > 0, x # y
AtanPositive(y, x) ==
    LET k == 268435456 \div Max(x, y)
    IN  Cordic(x * k, y * k, 0, 1, 1)

\* Math.atan2(y, x) * 180 / Math.PI in millionths of a degree; the multiples
\* of 45 degrees are exact, as they are in double arithmetic
Atan2Deg(y, x) ==
    IF y = 0 THEN (IF x >= 0 THEN 0 ELSE Deg(180))
    ELSE IF x = 0 THEN (IF y > 0 THEN Deg(90) ELSE 0 - Deg(90))
    ELSE LET a == IF Abs(x) = Abs(y) THEN Deg(45) ELSE AtanPositive(Abs(y), Abs(x))
         IN  IF x > 0 THEN (IF y > 0 THEN a ELSE 0 - a)
             ELSE (IF y > 0 THEN Deg(180) - a ELSE a - Deg(180))

-----------------------------------------------------------------------------
(* reba-calculator: the body part scores and calculateREBA *)

getNeckScore(neckAngle, isNeckTwisted) ==
    LET byAngle == IF neckAngle >= 0 /\ neckAngle < Deg(20) THEN 1
                   ELSE IF neckAngle >= Deg(20) THEN 2
                   ELSE 1
        extended == IF neckAngle < 0 THEN 2 ELSE byAngle
        score == IF isNeckTwisted THEN extended + 1 ELSE extended
    IN  Min(3, score)

getTrunkScore(trunkAngle, isTrunkTwisted) ==
    LET byAngle == IF trunkAngle >= 0 /\ trunkAngle < Deg(5) THEN 1
                   ELSE IF trunkAngle >= Deg(5) /\ trunkAngle < Deg(20) THEN 2
                   ELSE IF trunkAngle >= Deg(20) /\ trunkAngle < Deg(60) THEN 3
                   ELSE IF trunkAngle >= Deg(60) THEN 4
                   ELSE 1
        score == IF isTrunkTwisted THEN byAngle + 1 ELSE byAngle
    IN  Min(5, score)

getLegsScore(kneeAngle, isSupported) ==
    LET byAngle == IF kneeAngle >= Deg(30) /\ kneeAngle < Deg(60) THEN 2
                   ELSE IF kneeAngle >= Deg(60) THEN 2
                   ELSE 1
        score == IF ~isSupported THEN byAngle + 1 ELSE byAngle
    IN  Min(4, score)

getUpperArmScore(upperArmAngle, isShoulderRaised, isArmAbducted, isArmSupported) ==
    LET byAngle == IF upperArmAngle >= Deg(20) /\ upperArmAngle < Deg(45) THEN 2
                   ELSE IF upperArmAngle >= Deg(45) /\ upperArmAngle < Deg(90) THEN 3
                   ELSE IF upperArmAngle >= Deg(90) THEN 4
                   ELSE 1
        extended == IF upperArmAngle < 0 - Deg(20) THEN 2 ELSE byAngle
        score == extended + (IF isShoulderRaised THEN 1 ELSE 0)
                          + (IF isArmAbducted THEN 1 ELSE 0)
                          - (IF isArmSupported THEN 1 ELSE 0)
    IN  Max(1, Min(6, score))

getLowerArmScore(lowerArmAngle) ==
    IF lowerArmAngle >= Deg(60) /\ lowerArmAngle <= Deg(100) THEN 1 ELSE 2

\* variant: the 15 degree boundary counts as flexed
getWristScore_inclusive(wristAngle, isWristTwisted) ==
    LET byAngle == IF Abs(wristAngle) >= Deg(15) THEN 2 ELSE 1
        score == IF isWristTwisted THEN byAngle + 1 ELSE byAngle
    IN  Min(3, score)

getWristScore(wristAngle, isWristTwisted) ==
    LET byAngle == IF Abs(wristAngle) > Deg(15) THEN 2 ELSE 1
        score == IF isWristTwisted THEN byAngle + 1 ELSE byAngle
    IN  Min(3, score)

\* keypoints[i] for a 0-based index: {} when the entry is undefined
KP(kps, i) == IF i >= 0 /\ i < Len(kps) THEN kps[i + 1] ELSE {}

\* kp?.score || 0
ScoreOrZero(kp) == IF kp = {} THEN 0 ELSE The(kp).score

\* Math.round(angle * 10) / 10, in tenths of a degree
RoundToTenth(angle) == (angle + 50000) \div 100000

\* mutant: the catch block rethrows
rebaCatchResult_rethrow == Thrown

\* catch (error) { console.error(...); return null; }
rebaCatchResult == Null

calculateREBA(kpsArg) ==
    IF kpsArg = {} THEN Null
    ELSE IF Len(The(kpsArg)) < 17 THEN Null
    ELSE
    LET kps == The(kpsArg)
        nose == KP(kps, 0)
        leftShoulder == KP(kps, 5)
        rightShoulder == KP(kps, 6)
        leftElbow == KP(kps, 7)
        rightElbow == KP(kps, 8)
        leftWrist == KP(kps, 9)
        rightWrist == KP(kps, 10)
        leftHip == KP(kps, 11)
        rightHip == KP(kps, 12)
        leftKnee == KP(kps, 13)
        rightKnee == KP(kps, 14)
        useLeftSide == ScoreOrZero(leftShoulder) > ScoreOrZero(rightShoulder)
        shoulderK == IF useLeftSide THEN leftShoulder ELSE rightShoulder
        elbowK == IF useLeftSide THEN leftElbow ELSE rightElbow
        wristK == IF useLeftSide THEN leftWrist ELSE rightWrist
        hipK == IF useLeftSide THEN leftHip ELSE rightHip
        kneeK == IF useLeftSide THEN leftKnee ELSE rightKnee
        \* a property read of an undefined keypoint throws; the catch returns null
        throws == \/ leftShoulder = {} \/ rightShoulder = {} \/ nose = {}
                  \/ leftHip = {} \/ rightHip = {}
                  \/ elbowK = {} \/ wristK = {}
    IN  IF throws THEN rebaCatchResult
        ELSE
        LET ls == The(leftShoulder)
            rs == The(rightShoulder)
            lh == The(leftHip)
            rh == The(rightHip)
            shoulder == The(shoulderK)
            elbow == The(elbowK)
            wrist == The(wristK)
            \* the midpoints are kept doubled: atan2 does not depend on the scale
            neckAngle == Atan2Deg(2 * The(nose).y - (ls.y + rs.y),
                                  2 * The(nose).x - (ls.x + rs.x))
            trunkAngle == Abs(Atan2Deg((ls.y + rs.y) - (lh.y + rh.y),
                                       (ls.x + rs.x) - (lh.x + rh.x)) - Deg(90))
            upperArmAngle == Abs(Atan2Deg(elbow.y - shoulder.y, elbow.x - shoulder.x)
                                    - Deg(90))
            lowerArmAngle == Abs(Atan2Deg(wrist.y - elbow.y, wrist.x - elbow.x)
                                    - Atan2Deg(elbow.y - shoulder.y, elbow.x - shoulder.x))
            wristFlexionAngle == Deg(15)
            kneeAngle == IF hipK # {} /\ kneeK # {}
                         THEN Abs(Atan2Deg(The(kneeK).y - The(hipK).y,
                                           The(kneeK).x - The(hipK).x))
                         ELSE Deg(30)
            neckScore == getNeckScore(Abs(neckAngle - Deg(90)), FALSE)
            trunkScore == getTrunkScore(trunkAngle, FALSE)
            legsScore == getLegsScore(kneeAngle, TRUE)
            upperArmScore == getUpperArmScore(upperArmAngle, FALSE, FALSE, FALSE)
            lowerArmScore == getLowerArmScore(lowerArmAngle)
            wristScore == getWristScore(wristFlexionAngle, FALSE)
            scoreA == reba_getScoreA(neckScore, trunkScore, legsScore)
            scoreB == reba_getScoreB(upperArmScore, lowerArmScore, wristScore)
            finalScore == reba_getFinalScore(scoreA, scoreB, 0, 0)
        IN  [type |-> "reba",
             neck |-> neckScore,
             trunk |-> trunkScore,
             legs |-> legsScore,
             upperArm |-> upperArmScore,
             lowerArm |-> lowerArmScore,
             wrist |-> wristScore,
             scoreA |-> scoreA,
             scoreB |-> scoreB,
             finalScore |-> finalScore,
             riskLevel |-> reba_getRiskLevel(finalScore),
             actionLevel |-> reba_getActionLevel(finalScore),
             neckAngle |-> RoundToTenth(Abs(neckAngle - Deg(90))),
             trunkAngle |-> RoundToTenth(trunkAngle),
             upperArmAngle |-> RoundToTenth(upperArmAngle),
             lowerArmAngle |-> RoundToTenth(lowerArmAngle),
             wristAngle |-> RoundToTenth(wristFlexionAngle)]

-----------------------------------------------------------------------------
(* weight-detection: the posture analysis and the weight estimate *)

\* the distances the posture tests compare with, in hundredths
WristAwayThreshold == 5
OverheadThreshold == 10
ForwardLeanThreshold == 15

\* The values calculateElbowAngle can return.  A zero-length segment makes the
\* arccosine argument 0/0 and the NaN guard returns 90.  For segments on one
\* line the exact angle is 0 (same direction) or 180 (opposite), and the
\* rounding of dot / (magA * magB) decides whether the argument leaves [-1, 1]
\* by an ulp (NaN, so 90) or not: both outcomes are kept.
calculateElbowAngle(shoulder, elbow, wrist) ==
    LET ax == elbow.x - shoulder.x
        ay == elbow.y - shoulder.y
        bx == wrist.x - elbow.x
        by == wrist.y - elbow.y
        dot == ax * bx + ay * by
        cross == ax * by - ay * bx
    IN  IF (ax = 0 /\ ay = 0) \/ (bx = 0 /\ by = 0) THEN {Deg(90)}
        ELSE IF cross = 0 THEN {IF dot > 0 THEN 0 ELSE Deg(180), Deg(90)}
        ELSE {Atan2Deg(Abs(cross), dot)}

\* The coordinates are doubles, so a comparison whose two sides are equal in
\* exact arithmetic is decided by rounding (0.3 + 0.15 is below 0.45, and
\* 0.63 - 0.58 is above 0.05): tie is the outcome rounding gives it.
Exceeds(a, b, tie) ==
    a > b \/ (a = b /\ tie)

\* the outcomes rounding can give the five threshold tests of one estimate
Ties ==
    [leftAway : BOOLEAN, rightAway : BOOLEAN, leftOver : BOOLEAN,
     rightOver : BOOLEAN, lean : BOOLEAN]

\* mutant: 16 entries are taken as enough (the last index read is 12)
EnoughKeypoints_sixteen(kps) == Len(kps) >= 16

\* keypoints.length >= 17
EnoughKeypoints(kps) == Len(kps) >= 17

ArmsPresent(kps) ==
    /\ KP(kps, 5) # {} /\ KP(kps, 6) # {}
    /\ KP(kps, 7) # {} /\ KP(kps, 8) # {}
    /\ KP(kps, 9) # {} /\ KP(kps, 10) # {}

\* mutant: the image's y axis taken as pointing up
overheadDetected_flipped(wrist, shoulder, tie) ==
    Exceeds(wrist.y, shoulder.y + OverheadThreshold, tie)

\* wrist.y < shoulder.y - 0.1
overheadDetected(wrist, shoulder, tie) ==
    Exceeds(shoulder.y - OverheadThreshold, wrist.y, tie)

\* mutant: the lower bound of the elbow angle is missing
armExtended_noLowerBound(elbowAngle) == elbowAngle < Deg(150)

\* elbowAngle > 30 && elbowAngle < 150
armExtended(elbowAngle) == elbowAngle > Deg(30) /\ elbowAngle < Deg(150)

\* analyzePosture, given the two elbow angles calculateElbowAngle returned and
\* the outcomes t of the threshold tests that are ties.
\* spineDeviation, |shoulderCenter.x - hipCenter.x| * 100, is kept doubled:
\* the centres are halves, and the * 100 undoes the hundredths
analyzePosture(kps, leftElbowAngle, rightElbowAngle, t) ==
    LET default == [isLifting |-> FALSE, isCarrying |-> FALSE, armPosition |-> "close",
                    spineDeviation |-> 0, loadDirection |-> "front"]
    IN  IF ~EnoughKeypoints(kps) THEN default
        ELSE IF ~ArmsPresent(kps) THEN default
        ELSE
        LET leftShoulder == The(KP(kps, 5))
            rightShoulder == The(KP(kps, 6))
            leftWrist == The(KP(kps, 9))
            rightWrist == The(KP(kps, 10))
            leftHip == KP(kps, 11)
            rightHip == KP(kps, 12)
            leftArmExtended == armExtended(leftElbowAngle)
            rightArmExtended == armExtended(rightElbowAngle)
            leftWristAway == Exceeds(Abs(leftWrist.x - leftShoulder.x),
                                     WristAwayThreshold, t.leftAway)
            rightWristAway == Exceeds(Abs(rightWrist.x - rightShoulder.x),
                                      WristAwayThreshold, t.rightAway)
            carrying == (leftArmExtended /\ leftWristAway)
                            \/ (rightArmExtended /\ rightWristAway)
            lifting == leftArmExtended /\ rightArmExtended
                            /\ (leftWristAway \/ rightWristAway)
            overhead == \/ overheadDetected(leftWrist, leftShoulder, t.leftOver)
                        \/ overheadDetected(rightWrist, rightShoulder, t.rightOver)
        IN  [isLifting |-> lifting \/ overhead,
             isCarrying |-> carrying,
             armPosition |-> IF overhead THEN "overhead"
                             ELSE IF carrying \/ lifting THEN "extended"
                             ELSE "close",
             spineDeviation |-> IF leftHip # {} /\ rightHip # {}
                                THEN Abs((leftShoulder.x + rightShoulder.x)
                                           - (The(leftHip).x + The(rightHip).x))
                                ELSE 0,
             loadDirection |-> "front"]

\* mutant: the weights of lifting and carrying are exchanged
postureBaseWeight_exchanged(bodyPosture) ==
    IF bodyPosture.isLifting /\ bodyPosture.armPosition = "extended" THEN 7
    ELSE IF bodyPosture.isCarrying /\ bodyPosture.armPosition = "extended" THEN 10
    ELSE IF bodyPosture.armPosition = "overhead" THEN 12
    ELSE 0

\* baseWeight before the additional checks
postureBaseWeight(bodyPosture) ==
    IF bodyPosture.isLifting /\ bodyPosture.armPosition = "extended" THEN 10
    ELSE IF bodyPosture.isCarrying /\ bodyPosture.armPosition = "extended" THEN 7
    ELSE IF bodyPosture.armPosition = "overhead" THEN 12
    ELSE 0

calculateWeightFromPosture(bodyPosture, kps, leftElbowAngle, rightElbowAngle, t) ==
    LET baseWeight == postureBaseWeight(bodyPosture)
    IN  IF EnoughKeypoints(kps) /\ baseWeight > 0 /\ ArmsPresent(kps)
        THEN LET leftShoulder == The(KP(kps, 5))
                 rightShoulder == The(KP(kps, 6))
                 leftWrist == The(KP(kps, 9))
                 rightWrist == The(KP(kps, 10))
                 asymmetry == Abs(leftElbowAngle - rightElbowAngle)
                 \* wristCenter.y > shoulderCenter.y + 0.15, both sides doubled
                 forwardLean ==
                     Exceeds(leftWrist.y + rightWrist.y,
                             leftShoulder.y + rightShoulder.y + 2 * ForwardLeanThreshold,
                             t.lean)
             IN  baseWeight + (IF asymmetry > Deg(30) THEN 3 ELSE 0)
                            + (IF forwardLean THEN 5 ELSE 0)
        ELSE baseWeight

\* mutant: && instead of ||
isHoldingObject_and(bodyPosture) ==
    bodyPosture.isLifting /\ bodyPosture.isCarrying

\* bodyPosture.isLifting || bodyPosture.isCarrying
isHoldingObject(bodyPosture) ==
    bodyPosture.isLifting \/ bodyPosture.isCarrying

\* estimateWeightFromPosture, given the two elbow angles and the outcomes of
\* the tied tests; confidence is in tenths
estimateWith(kps, leftElbowAngle, rightElbowAngle, t) ==
    LET bodyPosture == analyzePosture(kps, leftElbowAngle, rightElbowAngle, t)
        estimatedWeight == calculateWeightFromPosture(bodyPosture, kps,
                                                      leftElbowAngle, rightElbowAngle, t)
        holding == isHoldingObject(bodyPosture)
    IN  [type |-> "estimation",
         estimatedWeight |-> IF holding THEN estimatedWeight ELSE 0,
         confidence |-> IF holding THEN 8 ELSE 1,
         detectedObjects |-> <<>>,
         bodyPosture |-> bodyPosture]

\* the angles calculateElbowAngle can return for the arm at indices s, e, w
\* (90 stands in when the arm is not complete: the angle is not computed then)
ArmAngles(kps, s, e, w) ==
    IF EnoughKeypoints(kps) /\ ArmsPresent(kps)
    THEN calculateElbowAngle(The(KP(kps, s)), The(KP(kps, e)), The(KP(kps, w)))
    ELSE {Deg(90)}

\* the runs of estimateWeightFromPosture(keypoints): the elbow angles
\* analyzePosture computed and the result.  Reading the length of an absent
\* array throws.
estimateRuns(kpsArg) ==
    IF kpsArg = {} THEN {[angles |-> <<>>, result |-> Thrown]}
    ELSE {[angles |-> IF EnoughKeypoints(The(kpsArg)) /\ ArmsPresent(The(kpsArg))
                      THEN <<la, ra>> ELSE <<>>,
           result |-> estimateWith(The(kpsArg), la, ra, t)] :
            la \in ArmAngles(The(kpsArg), 5, 7, 9),
            ra \in ArmAngles(The(kpsArg), 6, 8, 10),
            t \in Ties}

\* the outcomes of estimateWeightFromPosture(keypoints)
estimateWeightFromPosture(kpsArg) == {run.result : run \in estimateRuns(kpsArg)}

-----------------------------------------------------------------------------
(* The table lookups called on arbitrary integer component scores *)

ScoreArgs == (1 - Below) .. MaxScoreArg
ThirdArgs == (1 - Below) .. MaxThirdArg

IdleLookup ==
    /\ fn = "idle"
    /\ args = <<1, 1, 1>>
    /\ ret = Undef

IdleAdjust ==
    /\ originalScore = Null
    /\ weightEstimation = [estimatedWeight |-> 0]
    /\ manualWeight = {}
    /\ adjusted = [type |-> "idle"]
    /\ calls = 0

IdlePose ==
    /\ keypoints = {}
    /\ rebaScore = [type |-> "idle"]
    /\ estimation = [type |-> "idle"]
    /\ elbowAngles = <<>>

IdlePanel ==
    /\ selectedDetectedObject = {}
    /\ customWeight = 0
    /\ manualWeights = <<>>
    /\ analysisMode = "idle"
    /\ selectedFrame = [type |-> "idle"]
    /\ currentRebaScore = [type |-> "idle"]

IdleRec ==
    /\ now = 0
    /\ lastRecommendationTime = 0
    /\ shownRecommendations = {}
    /\ currentRecommendations = <<>>
    /\ shownTimers = {}
    /\ props = [type |-> "idle"]
    /\ newRecommendations = <<>>
    /\ served = "idle"
    /\ passedFilters = <<>>
    /\ dismissedRecommendations = {}
    /\ dismissTimers = {}
    /\ recommendations = <<>>

InitLookup ==
    /\ fn = "none"
    /\ args \in ScoreArgs \X ScoreArgs \X ThirdArgs
    /\ ret = Undef
    /\ IdleAdjust
    /\ IdlePose
    /\ IdlePanel
    /\ IdleRec

CallRebaGetScoreA ==
    /\ fn = "none"
    /\ fn' = "reba.getScoreA"
    /\ ret' = Num(reba_getScoreA(args[1], args[2], args[3]))
    /\ UNCHANGED args
    /\ UNCHANGED adjustVars
    /\ UNCHANGED poseVars
    /\ UNCHANGED panelVars
    /\ UNCHANGED recVars

CallRebaGetScoreB ==
    /\ fn = "none"
    /\ fn' = "reba.getScoreB"
    /\ ret' = Num(reba_getScoreB(args[1], args[2], args[3]))
    /\ UNCHANGED args
    /\ UNCHANGED adjustVars
    /\ UNCHANGED poseVars
    /\ UNCHANGED panelVars
    /\ UNCHANGED recVars

CallRebaGetFinalScore ==
    /\ fn = "none"
    /\ fn' = "reba.getFinalScore"
    /\ ret' = Num(reba_getFinalScore(args[1], args[2], 0, 0))
    /\ UNCHANGED args
    /\ UNCHANGED adjustVars
    /\ UNCHANGED poseVars
    /\ UNCHANGED panelVars
    /\ UNCHANGED recVars

CallRulaGetScoreA ==
    /\ fn = "none"
    /\ fn' = "rula.getScoreA"
    /\ ret' = rula_getScoreA(args[1], args[2], args[3])
    /\ UNCHANGED args
    /\ UNCHANGED adjustVars
    /\ UNCHANGED poseVars
    /\ UNCHANGED panelVars
    /\ UNCHANGED recVars

CallRulaGetScoreB ==
    /\ fn = "none"
    /\ fn' = "rula.getScoreB"
    /\ ret' = rula_getScoreB(args[1], args[2])
    /\ UNCHANGED args
    /\ UNCHANGED adjustVars
    /\ UNCHANGED poseVars
    /\ UNCHANGED panelVars
    /\ UNCHANGED recVars

CallRulaGetFinalScore ==
    /\ fn = "none"
    /\ fn' = "rula.getFinalScore"
    /\ ret' = rula_getFinalScore(args[1], args[2])
    /\ UNCHANGED args
    /\ UNCHANGED adjustVars
    /\ UNCHANGED poseVars
    /\ UNCHANGED panelVars
    /\ UNCHANGED recVars

-----------------------------------------------------------------------------
(* The weight adjusters called on base scores and weights *)

Weights == 0 .. MaxWeight

\* an estimated weight used beside a supplied manual weight
EstimateProbe == 7

\* the weights of a later adjustment of the same base: one weight per band
\* without a manual weight, and a manual weight beside an estimate
ReadjustInputs ==
    {<<[estimatedWeight |-> e], {}>> : e \in {0, 8, 25, 41}}
        \cup {<<[estimatedWeight |-> EstimateProbe], {m}>> : m \in {0, 25}}

AdjustInputs ==
    {<<[estimatedWeight |-> e], {}>> : e \in Weights}
        \cup {<<[estimatedWeight |-> e], {m}>> : e \in {0, EstimateProbe}, m \in Weights}

\* the inputs of the next adjustment
NextAdjustInputs == IF calls = 0 THEN AdjustInputs ELSE ReadjustInputs

RebaBases ==
    {rebaScoreObject(a, b) : a \in 1 .. MaxGroupScore, b \in 1 .. MaxGroupScore}

\* body part scores <<upperArm, lowerArm, wrist, neck, trunk>> of a base RULA score
RulaComponents == {<<1, 1, 1, 1, 1>>, <<3, 2, 2, 2, 3>>, <<6, 3, 4, 4, 5>>}

RulaBases == {rulaScoreObject(c, f) : c \in RulaComponents, f \in 1 .. MaxRulaBase}

InitAdjust ==
    /\ originalScore \in RebaBases \cup RulaBases \cup {Null}
    /\ weightEstimation = [estimatedWeight |-> 0]
    /\ manualWeight = {}
    /\ adjusted = NotCalled
    /\ calls = 0
    /\ IdleLookup
    /\ IdlePose
    /\ IdlePanel
    /\ IdleRec

CallAdjustReba ==
    /\ adjusted.type # "idle"
    /\ calls < MaxCalls
    /\ originalScore.type \in {"reba", "null"}
    /\ \E in \in NextAdjustInputs :
        /\ weightEstimation' = in[1]
        /\ manualWeight' = in[2]
        /\ adjusted' = calculateWeightAdjustedReba(originalScore, in[1], in[2])
    /\ originalScore' = argumentAfterCall(originalScore, adjusted')
    /\ calls' = calls + 1
    /\ UNCHANGED lookupVars
    /\ UNCHANGED poseVars
    /\ UNCHANGED panelVars
    /\ UNCHANGED recVars

CallAdjustRula ==
    /\ adjusted.type # "idle"
    /\ calls < MaxCalls
    /\ originalScore.type \in {"rula", "null"}
    /\ \E in \in NextAdjustInputs :
        /\ weightEstimation' = in[1]
        /\ manualWeight' = in[2]
        /\ adjusted' = calculateWeightAdjustedRula(originalScore, in[1], in[2])
    /\ originalScore' = argumentAfterCall(originalScore, adjusted')
    /\ calls' = calls + 1
    /\ UNCHANGED lookupVars
    /\ UNCHANGED poseVars
    /\ UNCHANGED panelVars
    /\ UNCHANGED recVars

-----------------------------------------------------------------------------
(* The specification of the lookups and the adjusters *)

Init == InitLookup \/ InitAdjust

Next ==
    \/ CallRebaGetScoreA
    \/ CallRebaGetScoreB
    \/ CallRebaGetFinalScore
    \/ CallRulaGetScoreA
    \/ CallRulaGetScoreB
    \/ CallRulaGetFinalScore
    \/ CallAdjustReba
    \/ CallAdjustRula

Spec == Init /\ [][Next]_vars

-----------------------------------------------------------------------------
(* The scorer and the estimator called on the keypoints of a frame *)

Kp(x, y, score) == {[x |-> x, y |-> y, score |-> score]}

\* A person standing upright, facing the camera (y grows downwards), in the
\* COCO order: 0 nose, 1-4 eyes and ears, 5/6 shoulders, 7/8 elbows, 9/10
\* wrists, 11/12 hips, 13/14 knees, 15/16 ankles.  Scores are in tenths.
StandingPose ==
    << Kp(50, 20, 9),
       Kp(52, 18, 9), Kp(48, 18, 9), Kp(54, 19, 9), Kp(46, 19, 9),
       Kp(58, 30, 9), Kp(42, 30, 9),
       Kp(58, 45, 9), Kp(42, 45, 9),
       Kp(58, 60, 9), Kp(42, 60, 9),
       Kp(55, 62, 9), Kp(45, 62, 9),
       Kp(55, 80, 9), Kp(45, 80, 9),
       Kp(55, 97, 9), Kp(45, 97, 9) >>

\* pose with the keypoint at 0-based index i replaced
WithKp(pose, i, kp) == [pose EXCEPT ![i + 1] = kp]

\* pose with the keypoint at index i placed at (dx, dy) from the one at index j
Placed(pose, i, j, dx, dy) ==
    WithKp(pose, i, Kp(The(pose[j + 1]).x + dx, The(pose[j + 1]).y + dy,
                       The(pose[i + 1]).score))

\* pose with the confidence score of the keypoint at index i replaced
Scored(pose, i, score) ==
    WithKp(pose, i, Kp(The(pose[i + 1]).x, The(pose[i + 1]).y, score))

Grid == (0 - Reach) .. Reach

\* the confidence scores of the left and the right shoulder
ShoulderScores == {<<9, 5>>, <<5, 9>>}

WithShoulderScores(pose, sc) == Scored(Scored(pose, 5, sc[1]), 6, sc[2])

\* the right wrist hangs below the right elbow, points sideways, or is raised
RightWristOffsets == {<<0, 1>>, <<0 - 1, 0>>, <<0, 0 - 2>>}

\* the arms move: the left elbow around the left shoulder, the left wrist
\* around the left elbow (the zero offsets give the zero-length segments)
ArmPoses ==
    {WithShoulderScores(
        Placed(Placed(Placed(StandingPose, 7, 5, e[1] * StepX, e[2] * StepY),
                      9, 5, (e[1] + w[1]) * StepX, (e[2] + w[2]) * StepY),
               10, 8, r[1] * StepX, r[2] * StepY),
        sc) :
        e \in Grid \X Grid, w \in Grid \X Grid, r \in RightWristOffsets,
        sc \in ShoulderScores}

\* the nose relative to the left shoulder, the shift of both hips, the left
\* knee relative to the left hip, the left elbow relative to the left shoulder
NoseOffsets == {<<0 - 8, 0 - 10>>, <<0 - 6, 10>>, <<0 - 3, 10>>, <<10, 0>>}
HipShifts == {<<0, 0>>, <<0, 0 - 62>>, <<0 - 3, 0 - 62>>, <<0 - 15, 0 - 62>>}
KneeOffsets == {<<0, 18>>, <<18, 5>>, <<18, 18>>}
LeftElbowOffsets == {<<0, 15>>, <<6, 14>>, <<15, 8>>, <<15, 0>>}

\* the body moves: the nose, both hips, the left knee and the left elbow
BodyPoses ==
    {WithShoulderScores(
        Placed(Placed(Placed(Placed(Placed(StandingPose, 0, 5, n[1], n[2]),
                                    11, 11, h[1], h[2]),
                             12, 12, h[1], h[2]),
                      13, 11, k[1], k[2]),
               7, 5, a[1], a[2]),
        sc) :
        n \in NoseOffsets, h \in HipShifts, k \in KneeOffsets,
        a \in LeftElbowOffsets, sc \in ShoulderScores}

\* the indices calculateREBA and analyzePosture read
ReadIndices == {0, 5, 6, 7, 8, 9, 10, 11, 12, 13, 14}

\* one entry undefined, or the array cut short, or no array
DefectPoses ==
    {WithKp(WithShoulderScores(StandingPose, sc), i, {}) :
        i \in ReadIndices, sc \in ShoulderScores}

\* the left wrist raised above the head
RaisedPose == Placed(StandingPose, 9, 5, 0, 0 - 20)

\* arrays with fewer than 17 entries
ShortPoses == {SubSeq(p, 1, n) : n \in {0, 5, 16}, p \in {StandingPose, RaisedPose}}

\* the left wrist detected with little confidence (score 0.2 or 0.3), hanging
\* below the left elbow, pointing sideways, or raised above the head
LowScorePoses ==
    {Scored(Placed(WithShoulderScores(StandingPose, <<9, 5>>), 9, 7, w[1], w[2]), 9, sc) :
        w \in {<<0, 15>>, <<15, 0>>, <<0, 0 - 40>>}, sc \in {2, 3}}

KeypointArgs ==
    {{p} : p \in ArmPoses \cup BodyPoses \cup DefectPoses \cup ShortPoses
                  \cup LowScorePoses} \cup {{}}

InitPose ==
    /\ keypoints \in KeypointArgs
    /\ rebaScore = NotCalled
    /\ estimation = NotCalled
    /\ elbowAngles = <<>>
    /\ IdleLookup
    /\ IdleAdjust
    /\ IdlePanel
    /\ IdleRec

CallCalculateREBA ==
    /\ rebaScore = NotCalled
    /\ rebaScore' = calculateREBA(keypoints)
    /\ UNCHANGED <<keypoints, estimation, elbowAngles>>
    /\ UNCHANGED lookupVars
    /\ UNCHANGED adjustVars
    /\ UNCHANGED panelVars
    /\ UNCHANGED recVars

CallEstimateWeightFromPosture ==
    /\ estimation = NotCalled
    /\ \E run \in estimateRuns(keypoints) :
          /\ estimation' = run.result
          /\ elbowAngles' = run.angles
    /\ UNCHANGED <<keypoints, rebaScore>>
    /\ UNCHANGED lookupVars
    /\ UNCHANGED adjustVars
    /\ UNCHANGED panelVars
    /\ UNCHANGED recVars

NextPose ==
    \/ CallCalculateREBA
    \/ CallEstimateWeightFromPosture

SpecPose == InitPose /\ [][NextPose]_vars

-----------------------------------------------------------------------------
(* Properties of the lookups and the adjusters *)

RulaAdjusted == originalScore.type = "rula" /\ adjusted.type = "rula"
RebaAdjusted == originalScore.type = "reba" /\ adjusted.type = "reba"

\* C2: the RULA final table lookup returns a number in 1..7 for all integer
\* scores, in or out of range, and the weight adjusted RULA final score is in
\* 1..7 for every base final score in 1..7 and every effective weight >= 0.
C2_RulaFinalScoreInRange ==
    /\ fn = "rula.getFinalScore" => ret.kind = "number" /\ ret.v \in 1 .. 7
    /\ RulaAdjusted /\ originalScore.finalScore \in 1 .. 7
          => adjusted.finalScore \in 1 .. 7

C2_Witness ==
    /\ RulaAdjusted
    /\ originalScore.finalScore = 5
    /\ adjusted.effectiveWeight > 23
    /\ adjusted.finalScore = 7

Clamp(i, lo, hi) == IF i < lo THEN lo ELSE IF i > hi THEN hi ELSE i

\* C3: every REBA table lookup returns, for every integer component score
\* (0, negative and above the table size included), the table entry at the
\* index obtained by clamping (score - 1) to the bounds of its table axis.
C3_RebaLookupsClampBothEnds ==
    /\ fn = "reba.getScoreA" =>
          ret = Num(REBA_TABLE_A[Clamp(args[1] - 1, 0, 4) + 1][Clamp(args[3] - 1, 0, 3) + 1])
    /\ fn = "reba.getScoreB" =>
          ret = Num(REBA_TABLE_B[Clamp(args[1] - 1, 0, 5) + 1][Clamp(args[3] - 1, 0, 2) + 1])
    /\ fn = "reba.getFinalScore" =>
          ret = Num(REBA_TABLE_C[Clamp(args[1] - 1, 0, 11) + 1][Clamp(args[2] - 1, 0, 11) + 1])

\* a score above the largest one its table axis supports, replaced by that one
Sat(score, largest) == IF score > largest THEN largest ELSE score

\* C4: in every REBA and RULA table lookup, a component score above the
\* maximum its table axis supports does not throw and gives the result of the
\* score that maps exactly to the axis' last index, the other arguments equal.
C4_IdempotentSaturation ==
    /\ fn # "none" /\ fn # "idle" => ret.kind = "number"
    /\ fn = "reba.getScoreA" =>
          ret = Num(reba_getScoreA(Sat(args[1], 5), Sat(args[2], 3), Sat(args[3], 4)))
    /\ fn = "reba.getScoreB" =>
          ret = Num(reba_getScoreB(Sat(args[1], 6), Sat(args[2], 2), Sat(args[3], 3)))
    /\ fn = "reba.getFinalScore" =>
          ret = Num(reba_getFinalScore(Sat(args[1], 12), Sat(args[2], 12), 0, 0))
    /\ fn = "rula.getScoreA" =>
          ret = rula_getScoreA(Sat(args[1], 6), Sat(args[2], 3), Sat(args[3], 8))
    /\ fn = "rula.getScoreB" =>
          ret = rula_getScoreB(Sat(args[1], 6), Sat(args[2], 6))
    /\ fn = "rula.getFinalScore" =>
          ret = rula_getFinalScore(Sat(args[1], 8), Sat(args[2], 7))

C4_Witness ==
    /\ fn = "reba.getScoreB"
    /\ args[1] > 6
    /\ args[3] > 3
    /\ ret = Num(9)

\* C5: for a fixed base RULA score with final score in 1..7, the adjusted
\* final score for an effective weight is at least the adjusted final score
\* for every smaller effective weight.
C5_RulaWeightMonotone ==
    RulaAdjusted /\ originalScore.finalScore \in 1 .. 7 =>
        \A w1 \in 0 .. adjusted.effectiveWeight :
            calculateWeightAdjustedRula(originalScore, [estimatedWeight |-> w1], {}).finalScore
                <= adjusted.finalScore

C5_Witness ==
    /\ RulaAdjusted
    /\ originalScore.finalScore = 2
    /\ adjusted.effectiveWeight = 24
    /\ adjusted.finalScore = 6
    /\ calculateWeightAdjustedRula(originalScore, [estimatedWeight |-> 23], {}).finalScore = 4

\* C6: for a fixed base REBA score with scoreA and scoreB in 1..12, the
\* adjusted final score for an effective weight is at least the adjusted
\* final score for every smaller effective weight.
C6_RebaWeightMonotone ==
    RebaAdjusted /\ originalScore.scoreA \in 1 .. 12 /\ originalScore.scoreB \in 1 .. 12 =>
        \A w1 \in 0 .. adjusted.effectiveWeight :
            calculateWeightAdjustedReba(originalScore, [estimatedWeight |-> w1], {}).finalScore
                <= adjusted.finalScore

C6_Witness ==
    /\ RebaAdjusted
    /\ originalScore.scoreA = 4
    /\ originalScore.scoreB = 3
    /\ adjusted.effectiveWeight = 41
    /\ adjusted.finalScore >
          calculateWeightAdjustedReba(originalScore, [estimatedWeight |-> 40], {}).finalScore

\* C7: adjusting a base score with estimatedWeight = 0 and no manual weight
\* leaves the final score equal to the base score's final score, for a RULA
\* base with final score in 1..7 and for a REBA base as the scorer builds it.
C7_ZeroWeightRoundTrip ==
    /\ weightEstimation.estimatedWeight = 0 /\ manualWeight = {} /\ RulaAdjusted
          /\ originalScore.finalScore \in 1 .. 7
          => adjusted.finalScore = originalScore.finalScore
    /\ weightEstimation.estimatedWeight = 0 /\ manualWeight = {} /\ RebaAdjusted
          /\ originalScore = rebaScoreObject(originalScore.scoreA, originalScore.scoreB)
          => adjusted.finalScore = originalScore.finalScore

C7_Witness ==
    /\ RebaAdjusted
    /\ weightEstimation.estimatedWeight = 0
    /\ manualWeight = {}
    /\ originalScore.scoreA = 6
    /\ originalScore.scoreB = 9
    /\ adjusted.finalScore = 10
    /\ originalScore.finalScore = 10

\* r is Math.round(x * m) for the multiplier m given in tenths: the integer
\* with r - 1/2 <= x * m < r + 1/2
IsRoundOf(r, x, m10) ==
    /\ 10 * (2 * r - 1) <= 2 * x * m10
    /\ 2 * x * m10 < 10 * (2 * r + 1)

\* the multiplier (in tenths) the REBA bands give a weight
BandMultiplier(w) ==
    CASE w <= 5 -> 10
      [] w > 5 /\ w <= 10 -> 11
      [] w > 10 /\ w <= 20 -> 13
      [] w > 20 /\ w <= 40 -> 15
      [] w > 40 -> 18

\* C10: the adjusted REBA score has the multiplier of its effective weight's
\* band (1.0, 1.1, 1.3, 1.5, 1.8 for <= 5, <= 10, <= 20, <= 40, above), group
\* scores round(original * multiplier) capped at 12, and as final score the
\* REBA Table C entry at [scoreA - 1][scoreB - 1] capped at 15; a manual
\* weight of 25 on scoreA = 4, scoreB = 3 gives 6, 5 and Table C [5][4].
C10_RebaBandsAndTableC ==
    RebaAdjusted /\ originalScore.scoreA \in 1 .. 12 /\ originalScore.scoreB \in 1 .. 12 =>
        /\ adjusted.weightMultiplier = BandMultiplier(adjusted.effectiveWeight)
        /\ \E r \in 0 .. 24 :
              /\ IsRoundOf(r, originalScore.scoreA, adjusted.weightMultiplier)
              /\ adjusted.scoreA = Min(12, r)
        /\ \E r \in 0 .. 24 :
              /\ IsRoundOf(r, originalScore.scoreB, adjusted.weightMultiplier)
              /\ adjusted.scoreB = Min(12, r)
        /\ adjusted.finalScore
              = Min(15, REBA_TABLE_C[adjusted.scoreA][adjusted.scoreB])
        /\ manualWeight = {25} /\ originalScore.scoreA = 4 /\ originalScore.scoreB = 3
              => /\ adjusted.weightMultiplier = 15
                 /\ adjusted.scoreA = 6
                 /\ adjusted.scoreB = 5
                 /\ adjusted.finalScore = REBA_TABLE_C[5 + 1][4 + 1]

C10_Witness ==
    /\ RebaAdjusted
    /\ manualWeight = {25}
    /\ originalScore.scoreA = 4
    /\ originalScore.scoreB = 3
    /\ adjusted.scoreA = 6
    /\ adjusted.scoreB = 5
    /\ adjusted.finalScore = 8

-----------------------------------------------------------------------------
(* Properties of the scorer and the estimator *)

Pose == The(keypoints)

\* a complete array whose six arm keypoints are present
CompletePose == keypoints # {} /\ Len(Pose) >= 17 /\ ArmsPresent(Pose)

\* angles (degrees) on both sides of every threshold of the body part scorers
AngleProbes ==
    {Deg(a) : a \in {0 - 180, 0 - 21, 0 - 20, 0 - 16, 0 - 1, 0, 4, 5, 15, 16, 19, 20,
                     29, 30, 44, 45, 59, 60, 89, 90, 100, 101, 180, 270}}

\* the scores each body part scorer can produce
NeckScores == {getNeckScore(a, tw) : a \in AngleProbes, tw \in BOOLEAN}
TrunkScores == {getTrunkScore(a, tw) : a \in AngleProbes, tw \in BOOLEAN}
LegsScores == {getLegsScore(a, su) : a \in AngleProbes, su \in BOOLEAN}
UpperArmScores ==
    {getUpperArmScore(a, f[1], f[2], f[3]) :
        a \in AngleProbes, f \in BOOLEAN \X BOOLEAN \X BOOLEAN}
LowerArmScores == {getLowerArmScore(a) : a \in AngleProbes}
WristScores == {getWristScore(a, tw) : a \in AngleProbes, tw \in BOOLEAN}

\* the group scores the lookups give those body part scores
GroupScoresA ==
    {reba_getScoreA(neck, trunk, legs) :
        neck \in NeckScores, trunk \in TrunkScores, legs \in LegsScores}
GroupScoresB ==
    {reba_getScoreB(upperArm, lowerArm, wrist) :
        upperArm \in UpperArmScores, lowerArm \in LowerArmScores, wrist \in WristScores}

\* C1: for every pose of 17 keypoints, whatever the angles, the score
\* calculateREBA returns has an integer final score in 1..15; and for every
\* combination of scores the body part scorers can produce, the final score
\* looked up from the two group scores is in 1..15.
C1_RebaFinalScoreInRange ==
    /\ rebaScore.type = "reba" => rebaScore.finalScore \in 1 .. 15
    /\ \A scoreA \in GroupScoresA, scoreB \in GroupScoresB :
          reba_getFinalScore(scoreA, scoreB, 0, 0) \in 1 .. 15

C1_Witness ==
    /\ rebaScore.type = "reba"
    /\ rebaScore.trunk = 4
    /\ rebaScore.upperArm = 4
    /\ rebaScore.finalScore = 3

\* C8: estimateWeightFromPosture returns estimatedWeight = 0 and confidence
\* 0.1 whenever isLifting and isCarrying are both false, and confidence 0.8
\* whenever at least one of them is true.
C8_ConfidenceFollowsFlags ==
    estimation.type = "estimation" =>
        /\ ~estimation.bodyPosture.isLifting /\ ~estimation.bodyPosture.isCarrying
              => estimation.estimatedWeight = 0 /\ estimation.confidence = 1
        /\ estimation.bodyPosture.isLifting \/ estimation.bodyPosture.isCarrying
              => estimation.confidence = 8

C8_Witness ==
    /\ estimation.type = "estimation"
    /\ estimation.bodyPosture.isLifting
    /\ ~estimation.bodyPosture.isCarrying
    /\ estimation.confidence = 8

\* some wrist is above its own shoulder by more than 0.1
WristRaised ==
    \/ The(KP(Pose, 9)).y < The(KP(Pose, 5)).y - OverheadThreshold
    \/ The(KP(Pose, 10)).y < The(KP(Pose, 6)).y - OverheadThreshold

\* C9: for a 17-keypoint pose with both arms present and a wrist above its
\* shoulder by more than 0.1, estimateWeightFromPosture returns armPosition
\* 'overhead', isLifting true and estimatedWeight >= 12, whatever the elbow
\* angles and the horizontal wrist offsets.
C9_RaisedWristIsOverhead ==
    estimation.type = "estimation" /\ CompletePose /\ WristRaised =>
        /\ estimation.bodyPosture.armPosition = "overhead"
        /\ estimation.bodyPosture.isLifting
        /\ estimation.estimatedWeight >= 12

C9_Witness ==
    /\ estimation.type = "estimation"
    /\ CompletePose
    /\ The(KP(Pose, 9)).y < The(KP(Pose, 5)).y - OverheadThreshold
    /\ ~(The(KP(Pose, 10)).y < The(KP(Pose, 6)).y - OverheadThreshold)
    /\ estimation.bodyPosture.isCarrying
    /\ estimation.bodyPosture.armPosition = "overhead"
    /\ estimation.estimatedWeight = 15

-----------------------------------------------------------------------------
(* Further properties of the adjusters *)

\* r is Math.ceil(x * m) for the multiplier m given in tenths: the integer
\* with r - 1 < x * m <= r
IsCeilOf(r, x, m10) ==
    /\ 10 * (r - 1) < x * m10
    /\ x * m10 <= 10 * r

\* the multiplier (in tenths) the RULA bands give a weight
RulaBandMultiplier(w) ==
    CASE w > 23 -> 30
      [] w > 10 /\ w <= 23 -> 20
      [] w > 5 /\ w <= 10 -> 15
      [] w <= 5 -> 10

\* C11: the adjusted RULA score has the multiplier 3 for an effective weight
\* above 23, 2 above 10, 1.5 above 5 and 1 otherwise (5, 10 and 23 fall in
\* the lower band), and its final score is ceil(base final score *
\* multiplier) capped at 7.
C11_RulaBandsAndCeil ==
    RulaAdjusted /\ originalScore.finalScore \in 1 .. 7 =>
        /\ adjusted.weightMultiplier = RulaBandMultiplier(adjusted.effectiveWeight)
        /\ \E r \in 0 .. 21 :
              /\ IsCeilOf(r, originalScore.finalScore, adjusted.weightMultiplier)
              /\ adjusted.finalScore = Min(7, r)

C11_Witness ==
    /\ RulaAdjusted
    /\ originalScore.finalScore = 3
    /\ adjusted.effectiveWeight = 10
    /\ adjusted.weightMultiplier = 15
    /\ adjusted.finalScore = 5

\* C12: in both adjusters the effective weight is the manual weight whenever
\* one is supplied (any number, 0 included), and the estimated weight only
\* when none is supplied.
C12_ManualWeightWins ==
    RulaAdjusted \/ RebaAdjusted =>
        adjusted.effectiveWeight
            = (IF manualWeight # {} THEN The(manualWeight)
               ELSE weightEstimation.estimatedWeight)

\* the fields of a RULA score the weight adjustment leaves alone
RulaCarriedFields == {"scoreA", "scoreB", "upperArm", "lowerArm", "wrist", "neck", "trunk"}

\* C13: the adjusted RULA score has the base's scoreA, scoreB and body part
\* scores, only its final score being scaled; the adjusted REBA score has
\* scoreA and scoreB rescaled (round(original * multiplier) capped at 12)
\* and its final score looked up again from the rescaled group scores.
C13_RulaScalesFinalRebaRescalesGroups ==
    /\ RulaAdjusted /\ originalScore.finalScore \in 1 .. 7 =>
          /\ \A f \in RulaCarriedFields : adjusted[f] = originalScore[f]
          /\ adjusted.finalScore
                = Min(7, CeilTimes(originalScore.finalScore, adjusted.weightMultiplier))
    /\ RebaAdjusted /\ originalScore.scoreA \in 1 .. 12 /\ originalScore.scoreB \in 1 .. 12 =>
          /\ adjusted.scoreA
                = Min(12, RoundTimes(originalScore.scoreA, adjusted.weightMultiplier))
          /\ adjusted.scoreB
                = Min(12, RoundTimes(originalScore.scoreB, adjusted.weightMultiplier))
          /\ adjusted.finalScore
                = reba_getFinalScore(adjusted.scoreA, adjusted.scoreB, 0, 0)

C13_Witness ==
    /\ RulaAdjusted
    /\ originalScore.scoreA = 3
    /\ originalScore.scoreB = 3
    /\ originalScore.finalScore = 2
    /\ adjusted.weightMultiplier = 30
    /\ adjusted.finalScore = 6
    /\ adjusted.scoreA = 3
    /\ adjusted.upperArm = 3

\* C14: every adjusted score returned for a non-null base, by either
\* adjuster, has the base score's fields plus effectiveWeight,
\* weightMultiplier and isWeightAdjusted = true.
C14_AdjustedShape ==
    RulaAdjusted \/ RebaAdjusted =>
        /\ DOMAIN adjusted
              = DOMAIN originalScore
                  \cup {"effectiveWeight", "weightMultiplier", "isWeightAdjusted"}
        /\ adjusted.isWeightAdjusted = TRUE


\* C15: neither adjuster mutates its base score: every step leaves every
\* field of the base as it was, so each adjustment in a sequence of
\* adjustments of the same base with different weights is the adjustment of
\* the original base.
C15_BaseNeverMutated ==
    /\ [][originalScore' = originalScore]_vars
    /\ [](RulaAdjusted =>
            adjusted = calculateWeightAdjustedRula(originalScore, weightEstimation,
                                                   manualWeight))
    /\ [](RebaAdjusted =>
            adjusted = calculateWeightAdjustedReba(originalScore, weightEstimation,
                                                   manualWeight))

\* a second adjustment, with a small weight, of a base whose adjustment with
\* a large weight would have changed it
C15_Witness ==
    /\ RebaAdjusted
    /\ calls = 2
    /\ originalScore = rebaScoreObject(4, 3)
    /\ adjusted.effectiveWeight = 8
    /\ adjusted.scoreA = 4
    /\ adjusted.finalScore = 4


\* C20: the riskLevel of a weight adjusted RULA score is the RULA risk level
\* of its adjusted final score ('Acceptable' for <= 2, 'Investigate' for
\* <= 4, 'Investigate Soon' for <= 6, 'Investigate Immediately' otherwise),
\* the value getRiskLevel returns for that score.
C20_AdjustedRulaRiskLevel ==
    RulaAdjusted /\ originalScore.finalScore \in 1 .. 7 =>
        /\ adjusted.riskLevel = rula_getRiskLevel(adjusted.finalScore)
        /\ adjusted.riskLevel
              = (IF adjusted.finalScore <= 2 THEN "Acceptable"
                 ELSE IF adjusted.finalScore <= 4 THEN "Investigate"
                 ELSE IF adjusted.finalScore <= 6 THEN "Investigate Soon"
                 ELSE "Investigate Immediately")


-----------------------------------------------------------------------------
(* Further properties of the scorer and the estimator *)

\* calculateREBA has returned or thrown
RebaCalled == rebaScore.type \in {"reba", "null", "throw"}

\* the keypoint array is absent, short, or lacks the nose, a shoulder or a hip
InsufficientForReba ==
    \/ keypoints = {}
    \/ Len(Pose) < 17
    \/ \E i \in {0, 5, 6, 11, 12} : KP(Pose, i) = {}

\* C16: calculateREBA never throws, and returns null, never a score object,
\* whenever the keypoint array is absent, has fewer than 17 entries, or has
\* an undefined entry for the nose, a shoulder or a hip.
C16_RebaNullOnInsufficientInput ==
    RebaCalled =>
        /\ rebaScore.type # "throw"
        /\ InsufficientForReba => rebaScore = Null

C16_Witness ==
    /\ rebaScore = Null
    /\ keypoints # {}
    /\ Len(Pose) = 17
    /\ KP(Pose, 12) = {}
    /\ \A i \in {0, 5, 6, 11} : KP(Pose, i) # {}


\* estimateWeightFromPosture has returned
Estimated == estimation.type = "estimation"

\* C17: given a keypoint array with fewer than 17 entries (the empty array
\* included), estimateWeightFromPosture does not throw and returns isLifting
\* false, isCarrying false, armPosition 'close', spineDeviation 0,
\* estimatedWeight 0 and confidence 0.1.
C17_DefaultEstimateOnShortInput ==
    estimation.type \in {"estimation", "throw"} /\ keypoints # {} /\ Len(Pose) < 17 =>
        /\ Estimated
        /\ estimation.bodyPosture.isLifting = FALSE
        /\ estimation.bodyPosture.isCarrying = FALSE
        /\ estimation.bodyPosture.armPosition = "close"
        /\ estimation.bodyPosture.spineDeviation = 0
        /\ estimation.estimatedWeight = 0
        /\ estimation.confidence = 1

\* sixteen entries whose left wrist is raised
C17_Witness ==
    /\ Estimated
    /\ keypoints = {SubSeq(RaisedPose, 1, 16)}
    /\ estimation.bodyPosture.armPosition = "close"
    /\ estimation.confidence = 1


\* p and q are complete 17-keypoint poses that differ only in the x/y
\* coordinates of keypoints with score <= 0.3
DifferOnlyInLowScoreCoordinates(p, q) ==
    /\ Len(p) = 17 /\ Len(q) = 17
    /\ \A i \in 1 .. 17 :
          /\ p[i] # {} /\ q[i] # {}
          /\ The(p[i]).score = The(q[i]).score
          /\ The(p[i]).score > 3 => p[i] = q[i]

\* C18: calculateREBA and estimateWeightFromPosture treat every keypoint with
\* score <= 0.3 as absent: for two 17-keypoint poses that differ only in the
\* coordinates of such keypoints they return the same score and the same
\* weight estimation.
C18_LowScoreKeypointsIgnored ==
    keypoints # {} =>
        \A q \in ArmPoses \cup BodyPoses \cup LowScorePoses :
            DifferOnlyInLowScoreCoordinates(Pose, q) =>
                /\ RebaCalled => rebaScore = calculateREBA({q})
                /\ Estimated => estimation \in estimateWeightFromPosture({q})


\* the arm at the 0-based indices s, e, w is straight: the three points are
\* on one line with the elbow strictly between shoulder and wrist
StraightArm(s, e, w) ==
    LET ax == The(KP(Pose, e)).x - The(KP(Pose, s)).x
        ay == The(KP(Pose, e)).y - The(KP(Pose, s)).y
        bx == The(KP(Pose, w)).x - The(KP(Pose, e)).x
        by == The(KP(Pose, w)).y - The(KP(Pose, e)).y
    IN  ax * by - ay * bx = 0 /\ ax * bx + ay * by > 0

\* a segment of the arm at the indices s, e, w has zero length
DegenerateArm(s, e, w) ==
    \/ /\ The(KP(Pose, e)).x = The(KP(Pose, s)).x
       /\ The(KP(Pose, e)).y = The(KP(Pose, s)).y
    \/ /\ The(KP(Pose, w)).x = The(KP(Pose, e)).x
       /\ The(KP(Pose, w)).y = The(KP(Pose, e)).y

\* C19: calculateElbowAngle yields 180 degrees, up to rounding (here a
\* degree), for three collinear points with the elbow strictly between
\* shoulder and wrist, and exactly 90 when a segment has zero length.
C19_ElbowAngleStraightAndDegenerate ==
    Estimated /\ CompletePose =>
        \A arm \in {<<1, 5, 7, 9>>, <<2, 6, 8, 10>>} :
            /\ StraightArm(arm[2], arm[3], arm[4])
                  => Abs(elbowAngles[arm[1]] - Deg(180)) <= Deg(1)
            /\ DegenerateArm(arm[2], arm[3], arm[4])
                  => elbowAngles[arm[1]] = Deg(90)


\* the arms <<position in elbowAngles, shoulder index, wrist index>>
Arms == {<<1, 5, 9>>, <<2, 6, 10>>}

\* the arm's elbow angle is strictly between 30 and 150 degrees
ElbowBent(arm) == elbowAngles[arm[1]] > Deg(30) /\ elbowAngles[arm[1]] < Deg(150)

\* the horizontal distance of the arm's wrist from its shoulder, and the
\* height of the wrist above the shoulder, in hundredths
WristOffsetX(arm) == Abs(The(KP(Pose, arm[3])).x - The(KP(Pose, arm[2])).x)
WristHeight(arm) == The(KP(Pose, arm[2])).y - The(KP(Pose, arm[3])).y

\* C21: with 17 keypoints and the six arm keypoints present, isCarrying is
\* set exactly when some arm has its elbow angle strictly between 30 and 150
\* degrees and that arm's wrist more than 0.05 away in x from its shoulder;
\* isLifting exactly when both arms have such elbow angles and some wrist is
\* more than 0.05 away, or some wrist is more than 0.1 above its shoulder.
\* (A distance that equals its threshold in exact arithmetic is decided by
\* the rounding of the doubles, and may count either way.)
C21_CarryingAndLiftingFlags ==
    Estimated /\ CompletePose =>
        LET carryingSure == \E a \in Arms : ElbowBent(a) /\ WristOffsetX(a) > 5
            carryingMay == \E a \in Arms : ElbowBent(a) /\ WristOffsetX(a) >= 5
            bothBent == \A a \in Arms : ElbowBent(a)
            liftingSure == \/ (bothBent /\ (\E b \in Arms : WristOffsetX(b) > 5))
                           \/ (\E c \in Arms : WristHeight(c) > 10)
            liftingMay == \/ (bothBent /\ (\E b \in Arms : WristOffsetX(b) >= 5))
                          \/ (\E c \in Arms : WristHeight(c) >= 10)
        IN  /\ carryingSure => estimation.bodyPosture.isCarrying
            /\ estimation.bodyPosture.isCarrying => carryingMay
            /\ liftingSure => estimation.bodyPosture.isLifting
            /\ estimation.bodyPosture.isLifting => liftingMay

\* one arm bent with its wrist away, the other straight: carrying, not lifting
C21_Witness ==
    /\ Estimated /\ CompletePose
    /\ \E a \in Arms : ElbowBent(a) /\ WristOffsetX(a) > 5
    /\ \E a \in Arms : ~ElbowBent(a)
    /\ estimation.bodyPosture.isCarrying
    /\ ~estimation.bodyPosture.isLifting


\* twice the depth of the wrists' midpoint below the shoulders' midpoint
WristsBelowShoulders2 ==
    (The(KP(Pose, 9)).y + The(KP(Pose, 10)).y)
        - (The(KP(Pose, 5)).y + The(KP(Pose, 6)).y)

\* C22: the estimated weight is a step function of the posture: 12 when
\* armPosition is 'overhead', else 10 when isLifting with extended arms, else
\* 7 when isCarrying with extended arms, else 0; and, only when that base is
\* not 0, + 3 if the two elbow angles differ by more than 30 degrees and + 5
\* if the wrists' midpoint is more than 0.15 below the shoulders' midpoint;
\* so it is 0 or in 7..20.  (A depth of exactly 0.15 in exact arithmetic may
\* count either way.)
C22_WeightStepFunction ==
    Estimated /\ CompletePose =>
        LET bp == estimation.bodyPosture
            base == IF bp.armPosition = "overhead" THEN 12
                    ELSE IF bp.isLifting /\ bp.armPosition = "extended" THEN 10
                    ELSE IF bp.isCarrying /\ bp.armPosition = "extended" THEN 7
                    ELSE 0
            asymmetric == Abs(elbowAngles[1] - elbowAngles[2]) > Deg(30)
            bonus == estimation.estimatedWeight - base - (IF asymmetric THEN 3 ELSE 0)
        IN  /\ base = 0 => estimation.estimatedWeight = 0
            /\ base > 0 /\ WristsBelowShoulders2 > 30 => bonus = 5
            /\ base > 0 /\ WristsBelowShoulders2 < 30 => bonus = 0
            /\ base > 0 /\ WristsBelowShoulders2 = 30 => bonus \in {0, 5}
            /\ estimation.estimatedWeight = 0 \/ estimation.estimatedWeight \in 7 .. 20

\* lifting with extended arms, asymmetric elbows and low wrists: 10 + 3 + 5
C22_Witness ==
    /\ Estimated /\ CompletePose
    /\ estimation.bodyPosture.isLifting
    /\ estimation.bodyPosture.armPosition = "extended"
    /\ Abs(elbowAngles[1] - elbowAngles[2]) > Deg(30)
    /\ WristsBelowShoulders2 > 30
    /\ estimation.estimatedWeight = 18


-----------------------------------------------------------------------------
(* Further properties of the lookups *)

\* the index the legs score gives into a row of Table A
LegsDerivedIndex(legs) == IF legs <= 2 THEN legs - 1 ELSE Min(3, legs - 1)

\* C23: getScoreA(neck, trunk, legs) is the Table A entry indexed by the
\* neck score and the legs-derived index and has the same value for every
\* trunk score; getScoreB(upperArm, lowerArm, wrist) is the Table B entry
\* indexed by the upperArm and wrist scores and has the same value for every
\* lowerArm score.
C23_GroupScoresUseTwoAxes ==
    /\ fn = "reba.getScoreA" =>
          /\ \A trunk \in ScoreArgs :
                Num(reba_getScoreA(args[1], trunk, args[3])) = ret
          /\ LegsDerivedIndex(args[3]) \in 0 .. 3 =>
                ret = Num(REBA_TABLE_A[Clamp(args[1] - 1, 0, 4) + 1]
                                      [LegsDerivedIndex(args[3]) + 1])
    /\ fn = "reba.getScoreB" =>
          /\ \A lowerArm \in ScoreArgs :
                Num(reba_getScoreB(args[1], lowerArm, args[3])) = ret
          /\ ret = Num(REBA_TABLE_B[Clamp(args[1] - 1, 0, 5) + 1]
                                    [Clamp(args[3] - 1, 0, 2) + 1])

\* a trunk score of 3 beside neck 2 and legs 2: the entry of row 1, column 1
C23_Witness ==
    /\ fn = "reba.getScoreA"
    /\ args = <<2, 3, 2>>
    /\ ret = Num(3)


-----------------------------------------------------------------------------
(* Side selection and the range of the REBA scorer *)

\* the bilateral pairs <<left index, right index>> that only the
\* single-sided angles (upper arm, lower arm, knee) read
SingleSidedPairs == {<<7, 8>>, <<9, 10>>, <<13, 14>>}

\* the pose in which the keypoint of the pair's less confident side is a copy
\* of the keypoint of its more confident side
WithBetterSideOnly(p, pair) ==
    LET left == The(KP(p, pair[1]))
        right == The(KP(p, pair[2]))
    IN  IF left.score > right.score THEN WithKp(p, pair[2], {left})
        ELSE IF right.score > left.score THEN WithKp(p, pair[1], {right})
        ELSE p

\* C24: in calculateREBA, for every bilateral joint pair, the keypoint the
\* single-sided angles are computed from is the one of the side with the
\* higher confidence score: the score does not change when the pair's less
\* confident keypoint is replaced by the more confident one, and the
\* shoulder used is the more confident shoulder.
C24_MoreConfidentSideUsed ==
    rebaScore.type = "reba" /\ (\A i \in ReadIndices : KP(Pose, i) # {}) =>
        \A pair \in SingleSidedPairs :
            rebaScore = calculateREBA({WithBetterSideOnly(Pose, pair)})


\* C28: every score calculateREBA returns has wrist score 1, neck and legs
\* scores at most 2 and upper-arm score at most 4, hence scoreA <= 3,
\* scoreB <= 4 and finalScore <= 3, and its risk level is 'Negligible' or
\* 'Low'; the same bounds hold for the scorers at every probed angle with the
\* flags calculateREBA passes.
C28_RebaNeverAboveLow ==
    /\ rebaScore.type = "reba" =>
            /\ rebaScore.wrist = 1
            /\ rebaScore.neck <= 2
            /\ rebaScore.legs <= 2
            /\ rebaScore.upperArm <= 4
            /\ rebaScore.scoreA <= 3
            /\ rebaScore.scoreB <= 4
            /\ rebaScore.finalScore <= 3
            /\ rebaScore.riskLevel \in {"Negligible", "Low"}
    /\ \A a \in AngleProbes :
            /\ getNeckScore(a, FALSE) <= 2
            /\ getLegsScore(a, TRUE) <= 2
            /\ getUpperArmScore(a, FALSE, FALSE, FALSE) <= 4
    /\ \A neck \in 1 .. 2, trunk \in 1 .. 4, legs \in 1 .. 2 :
            reba_getScoreA(neck, trunk, legs) <= 3
    /\ \A upperArm \in 1 .. 4, lowerArm \in 1 .. 2 :
            reba_getScoreB(upperArm, lowerArm, 1) <= 4
    /\ \A scoreA \in 1 .. 3, scoreB \in 1 .. 4 :
            reba_getRiskLevel(reba_getFinalScore(scoreA, scoreB, 0, 0))
                \in {"Negligible", "Low"}

C28_Witness ==
    /\ rebaScore.type = "reba"
    /\ rebaScore.upperArm = 4
    /\ rebaScore.finalScore = 3
    /\ rebaScore.riskLevel = "Low"


-----------------------------------------------------------------------------
(* ManualWeightInput and RebaRecordingPanel: manual object weights *)

\* the objects getDetectedObjects found in the recording
DetectedObjects == {"detected_object_0", "detected_object_1"}

\* the weight handleDetectedObjectSelect puts in the field labelled
\* "Weight (grams)"
DefaultCustomWeight == 1000

\* the numbers typed in the weight field
WeightEntries == {0, 500, 3000, 7000}

\* existingWeights.some(w => w.id === objectId)
isObjectAdded(weights, objectId) ==
    \E i \in 1 .. Len(weights) : weights[i].id = objectId

\* manualWeights.reduce((total, weight) => total + weight.weight, 0)
RECURSIVE getTotalManualWeight(_)
getTotalManualWeight(weights) ==
    IF weights = <<>> THEN 0
    ELSE weights[Len(weights)].weight
            + getTotalManualWeight(SubSeq(weights, 1, Len(weights) - 1))

\* calculateWeightAdjustedReba(...) || frame.rebaScore
getCurrentRebaScore(frame, mode, weights) ==
    IF mode = "manual" /\ Len(weights) > 0
    THEN LET totalWeight == getTotalManualWeight(weights)
             weightEstimate == [estimatedWeight |-> totalWeight, confidence |-> 10]
             result == calculateWeightAdjustedReba(frame.rebaScore, weightEstimate,
                                                   {totalWeight})
         IN  IF result = Null THEN frame.rebaScore ELSE result
    ELSE IF mode = "estimated" /\ frame.weightEstimation # {}
    THEN LET result == calculateWeightAdjustedReba(frame.rebaScore,
                                                   The(frame.weightEstimation), {})
         IN  IF result = Null THEN frame.rebaScore ELSE result
    ELSE frame.rebaScore

\* the recorded frames a score is asked for
RecordingFrames ==
    {[type |-> "frame", rebaScore |-> r, weightEstimation |-> w] :
        r \in {Null} \cup {rebaScoreObject(a, b) : a \in {1, 3}, b \in {2, 4}},
        w \in {{}, {[estimatedWeight |-> 8, confidence |-> 8]}}}

InitPanel ==
    /\ selectedDetectedObject = {}
    /\ customWeight = 0
    /\ manualWeights = <<>>
    /\ analysisMode = "normal"
    /\ selectedFrame \in RecordingFrames
    /\ currentRebaScore = NotCalled
    /\ IdleLookup
    /\ IdleAdjust
    /\ IdlePose
    /\ IdleRec

\* a click on a detected object that is not yet added
handleDetectedObjectSelect ==
    /\ analysisMode # "idle"
    /\ \E detectedObject \in DetectedObjects :
        /\ ~isObjectAdded(manualWeights, detectedObject)
        /\ selectedDetectedObject' = {detectedObject}
    /\ customWeight' = DefaultCustomWeight
    /\ UNCHANGED <<manualWeights, analysisMode, selectedFrame, currentRebaScore>>
    /\ UNCHANGED lookupVars
    /\ UNCHANGED adjustVars
    /\ UNCHANGED poseVars
    /\ UNCHANGED recVars

\* onChange of the weight field, shown while an object is selected
setCustomWeight ==
    /\ selectedDetectedObject # {}
    /\ \E entry \in WeightEntries : customWeight' = entry
    /\ UNCHANGED <<selectedDetectedObject, manualWeights, analysisMode,
                   selectedFrame, currentRebaScore>>
    /\ UNCHANGED lookupVars
    /\ UNCHANGED adjustVars
    /\ UNCHANGED poseVars
    /\ UNCHANGED recVars

\* ManualWeightInput.handleAddWeight with the panel's handleAddWeight as
\* onAddWeight; the button is disabled while customWeight <= 0
handleAddWeight ==
    /\ selectedDetectedObject # {}
    /\ customWeight > 0
    /\ IF ~isObjectAdded(manualWeights, The(selectedDetectedObject))
       THEN /\ manualWeights' = Append(manualWeights,
                    [id |-> The(selectedDetectedObject), weight |-> customWeight])
            /\ selectedDetectedObject' = {}
            /\ customWeight' = 0
       ELSE UNCHANGED <<manualWeights, selectedDetectedObject, customWeight>>
    /\ UNCHANGED <<analysisMode, selectedFrame, currentRebaScore>>
    /\ UNCHANGED lookupVars
    /\ UNCHANGED adjustVars
    /\ UNCHANGED poseVars
    /\ UNCHANGED recVars

\* the Cancel button beside Add Weight
cancelSelection ==
    /\ selectedDetectedObject # {}
    /\ selectedDetectedObject' = {}
    /\ customWeight' = 0
    /\ UNCHANGED <<manualWeights, analysisMode, selectedFrame, currentRebaScore>>
    /\ UNCHANGED lookupVars
    /\ UNCHANGED adjustVars
    /\ UNCHANGED poseVars
    /\ UNCHANGED recVars

setAnalysisMode ==
    /\ analysisMode # "idle"
    /\ \E mode \in {"normal", "estimated", "manual"} : analysisMode' = mode
    /\ UNCHANGED <<selectedDetectedObject, customWeight, manualWeights,
                   selectedFrame, currentRebaScore>>
    /\ UNCHANGED lookupVars
    /\ UNCHANGED adjustVars
    /\ UNCHANGED poseVars
    /\ UNCHANGED recVars

\* the panel renders the selected frame
CallGetCurrentRebaScore ==
    /\ analysisMode # "idle"
    /\ \E frame \in RecordingFrames :
        /\ selectedFrame' = frame
        /\ currentRebaScore' = getCurrentRebaScore(frame, analysisMode, manualWeights)
    /\ UNCHANGED <<selectedDetectedObject, customWeight, manualWeights, analysisMode>>
    /\ UNCHANGED lookupVars
    /\ UNCHANGED adjustVars
    /\ UNCHANGED poseVars
    /\ UNCHANGED recVars

NextPanel ==
    \/ handleDetectedObjectSelect
    \/ setCustomWeight
    \/ handleAddWeight
    \/ cancelSelection
    \/ setAnalysisMode
    \/ CallGetCurrentRebaScore

SpecPanel == InitPanel /\ [][NextPanel]_vars

\* the grams entered for the objects added so far
EnteredGrams == getTotalManualWeight(manualWeights)

\* getCurrentRebaScore has adjusted the selected frame for the manual weights
ManuallyAdjusted ==
    /\ currentRebaScore.type = "reba"
    /\ analysisMode = "manual"
    /\ Len(manualWeights) > 0
    /\ selectedFrame.rebaScore # Null
    /\ currentRebaScore
            = getCurrentRebaScore(selectedFrame, analysisMode, manualWeights)

\* C29: an object entered in ManualWeightInput with N grams contributes
\* N/1000 kg to the effective weight RebaRecordingPanel hands to
\* calculateWeightAdjustedReba, so that one object left at the default
\* 1000 g is adjusted with 1 kg, in the band of multiplier 1.0.
C29_GramsReachAdjusterAsKilograms ==
    ManuallyAdjusted =>
        /\ currentRebaScore.effectiveWeight * 1000 = EnteredGrams
        /\ EnteredGrams = DefaultCustomWeight =>
                currentRebaScore.weightMultiplier = 10


-----------------------------------------------------------------------------
(* RecommendationEngine: candidates, throttle and the shown set *)

\* an id written as a literal, and an id built by a template `prefix-${minutes}`
StaticId(name) == <<name, 0>>
TimedId(prefix, minutes) == <<prefix, minutes>>

\* an ErgonomicRecommendation: the texts and the icon are left out
Recommendation(id, priority, category) ==
    [id |-> id, priority |-> priority, category |-> category]

generateRulaRecommendations(rulaScore) ==
    (IF rulaScore.finalScore >= 7
     THEN <<Recommendation(StaticId("rula-critical-immediate"), "critical", "breaks")>>
     ELSE IF rulaScore.finalScore >= 5
     THEN <<Recommendation(StaticId("rula-high-action"), "high", "posture")>>
     ELSE <<>>)
    \o (IF rulaScore.upperArm >= 3
        THEN <<Recommendation(StaticId("rula-upper-arm-high"),
                   IF rulaScore.upperArm >= 4 THEN "critical" ELSE "high", "posture")>>
        ELSE <<>>)
    \o (IF rulaScore.wrist >= 3
        THEN <<Recommendation(StaticId("rula-wrist-high"),
                   IF rulaScore.wrist >= 4 THEN "critical" ELSE "high", "posture")>>
        ELSE <<>>)
    \o (IF rulaScore.neck >= 3
        THEN <<Recommendation(StaticId("rula-neck-high"),
                   IF rulaScore.neck >= 4 THEN "critical" ELSE "high", "posture")>>
        ELSE <<>>)
    \o (IF rulaScore.scoreA >= 4 \/ rulaScore.scoreB >= 4
        THEN <<Recommendation(
                   IF rulaScore.scoreA >= rulaScore.scoreB
                   THEN StaticId("rula-arm-fatigue") ELSE StaticId("rula-neck-fatigue"),
                   "medium", "movement")>>
        ELSE <<>>)

generateRebaRecommendations(reba) ==
    (IF reba.trunk >= 3
     THEN <<Recommendation(StaticId("reba-trunk-high"),
                IF reba.trunk >= 4 THEN "critical" ELSE "high", "posture")>>
     ELSE <<>>)
    \o (IF reba.legs >= 2
        THEN <<Recommendation(StaticId("reba-legs-high"),
                   IF reba.legs >= 3 THEN "high" ELSE "medium", "posture")>>
        ELSE <<>>)
    \o (IF reba.finalScore >= 8
        THEN <<Recommendation(StaticId("reba-critical-overall"), "critical", "breaks")>>
        ELSE IF reba.finalScore >= 4
        THEN <<Recommendation(StaticId("reba-medium-overall"), "medium", "movement")>>
        ELSE <<>>)

generateSessionRecommendations(sessionDuration) ==
    LET minutes == sessionDuration \div 60
    IN  (IF minutes >= 30 /\ minutes % 30 = 0
         THEN <<Recommendation(TimedId("break-reminder-", minutes), "medium", "breaks")>>
         ELSE <<>>)
        \o (IF minutes >= 20 /\ minutes % 20 = 0
            THEN <<Recommendation(TimedId("eye-break-", minutes), "low", "breaks")>>
            ELSE <<>>)

\* poseData is {} or {[keypoints |-> {} or {array}]}; scores are in tenths
generatePoseQualityRecommendations(poseData) ==
    IF poseData = {} THEN <<>>
    ELSE IF The(poseData).keypoints = {} THEN <<>>
    ELSE
    LET kps == The(The(poseData).keypoints)
        validKeypoints ==
            Cardinality({i \in 1 .. Len(kps) : kps[i] # {} /\ The(kps[i]).score > 3})
    IN  \* (validKeypoints / 17) * 100 < 70
        IF validKeypoints * 100 < 70 * 17
        THEN <<Recommendation(StaticId("pose-quality-low"), "low", "environment")>>
        ELSE <<>>

\* variant: 'high' sorts before 'critical'
getPriorityWeight_highFirst(priority) ==
    CASE priority = "critical" -> 2
      [] priority = "high" -> 1
      [] priority = "medium" -> 3
      [] priority = "low" -> 4
      [] OTHER -> 5

getPriorityWeight(priority) ==
    CASE priority = "critical" -> 1
      [] priority = "high" -> 2
      [] priority = "medium" -> 3
      [] priority = "low" -> 4
      [] OTHER -> 5

\* the elements of the given weight, in their order
WithWeight(recs, weight) ==
    SelectSeq(recs, LAMBDA rec : getPriorityWeight(rec.priority) = weight)

\* recs.sort((a, b) => getPriorityWeight(a.priority) - getPriorityWeight(b.priority)):
\* the sort is stable
sortByPriority(recs) ==
    WithWeight(recs, 1) \o WithWeight(recs, 2) \o WithWeight(recs, 3)
        \o WithWeight(recs, 4) \o WithWeight(recs, 5)

\* recs.slice(0, 2)
sliceTwo(recs) == SubSeq(recs, 1, Min(2, Len(recs)))

\* (context.rulaScore?.finalScore >= 5) || (context.rebaScore?.finalScore >= 8)
hasHighRisk(context) ==
    \/ context.rulaScore # {} /\ The(context.rulaScore).finalScore >= 5
    \/ context.rebaScore # {} /\ The(context.rebaScore).finalScore >= 8

\* variant: the two intervals of a session without high risk are exchanged
minInterval_exchanged(context) ==
    IF hasHighRisk(context) THEN 3000
    ELSE IF context.sessionDuration < 60 THEN 15000 ELSE 8000

minInterval(context) ==
    IF hasHighRisk(context) THEN 3000
    ELSE IF context.sessionDuration < 60 THEN 8000 ELSE 15000

\* the recommendations pushed, before the filters
candidates(context) ==
    (IF context.rulaScore # {} /\ context.assessmentType \in {"rula", "both"}
     THEN generateRulaRecommendations(The(context.rulaScore)) ELSE <<>>)
    \o (IF context.rebaScore # {} /\ context.assessmentType \in {"reba", "both"}
        THEN generateRebaRecommendations(The(context.rebaScore)) ELSE <<>>)
    \o (IF context.previousRecommendations = {}
           \/ "breaks" \in The(context.previousRecommendations)
        THEN generateSessionRecommendations(context.sessionDuration) ELSE <<>>)
    \o (IF context.poseData # {}
        THEN generatePoseQualityRecommendations(context.poseData) ELSE <<>>)

\* the two filters of generateRecommendations
filterCandidates(context, shown) ==
    SelectSeq(candidates(context), LAMBDA rec :
        /\ rec.id \notin shown
        /\ \/ context.previousRecommendations = {}
           \/ rec.category \in The(context.previousRecommendations))

\* generateRecommendations called at time t with the engine's statics last,
\* shown and current: what it returns and the statics afterwards
generateRecommendations(context, t, last, shown, current) ==
    IF t - last < minInterval(context)
    THEN [result |-> current, served |-> "cached", current |-> current,
          last |-> last, passed |-> passedFilters]
    ELSE LET passed == filterCandidates(context, shown)
             sortedRecommendations == sliceTwo(sortByPriority(passed))
         IN  [result |-> sortedRecommendations, served |-> "recomputed",
              current |-> sortedRecommendations, last |-> t, passed |-> passed]


-----------------------------------------------------------------------------
(* RecommendationOverlay: the effect, the dismiss handlers and the timers *)

\* Date.now() when the overlay is mounted: further from lastRecommendationTime's
\* initial 0 than any interval
StartTime == 1000000

\* the delays of the two setTimeout calls
ShownExpiry == 10 * 60 * 1000
DismissExpiry == 5 * 60 * 1000

\* the waits between two events
ShortWaits == {3000, 5000}
LongWait == DismissExpiry

\* short waits add up to at most MaxShortWait between two long waits, and the
\* clock stops MaxElapsed after the mount
MaxShortWait == 8000
MaxElapsed == 608000

\* at most MaxPending timeouts of markRecommendationShown are pending
MaxPending == 2

AllCategories == {"posture", "movement", "breaks", "environment"}

RulaInput(finalScore, upperArm, wrist, neck, scoreA, scoreB) ==
    [finalScore |-> finalScore, upperArm |-> upperArm, wrist |-> wrist,
     neck |-> neck, scoreA |-> scoreA, scoreB |-> scoreB]

RebaInput(trunk, legs, finalScore) ==
    [trunk |-> trunk, legs |-> legs, finalScore |-> finalScore]

OverlayProp(rula, reba, poseData, duration, assessmentType, visible, categories) ==
    [type |-> "props", rulaScore |-> rula, rebaScore |-> reba,
     poseData |-> poseData, sessionDuration |-> duration,
     assessmentType |-> assessmentType, isVisible |-> visible,
     enabledCategories |-> categories]

\* a frame in which the first eleven keypoints were detected
PartialPoseData == {[keypoints |-> {SubSeq(StandingPose, 1, 11)}]}

\* the props the parent renders the overlay with
OverlayProps ==
    { \* a critical RULA score while the overlay is hidden
      OverlayProp({RulaInput(7, 4, 3, 3, 5, 4)}, {}, {}, 30, "rula", FALSE,
                  AllCategories),
      \* a high RULA score whose candidates are pushed out of priority order
      OverlayProp({RulaInput(5, 4, 1, 1, 3, 4)}, {}, {}, 120, "rula", TRUE,
                  AllCategories),
      \* a medium REBA score an hour into the session
      OverlayProp({}, {RebaInput(3, 2, 5)}, {}, 3600, "reba", TRUE, AllCategories),
      \* a low REBA score early in the session: one candidate
      OverlayProp({RulaInput(2, 1, 1, 1, 2, 2)}, {RebaInput(1, 2, 2)}, {}, 45,
                  "both", TRUE, AllCategories),
      \* a poorly detected pose with the breaks category switched off
      OverlayProp({}, {}, PartialPoseData, 1200, "both", TRUE,
                  {"posture", "environment"}) }

\* the RecommendationContext the effect builds from the props
contextOf(p) ==
    [rulaScore |-> p.rulaScore, rebaScore |-> p.rebaScore, poseData |-> p.poseData,
     sessionDuration |-> p.sessionDuration, assessmentType |-> p.assessmentType,
     previousRecommendations |-> {p.enabledCategories}]

idsOf(recs) == {recs[i].id : i \in 1 .. Len(recs)}

\* every timeout that is due has run
NoTimerDue ==
    /\ \A timer \in shownTimers : timer.due > now
    /\ \A timer \in dismissTimers : timer.due > now

InitRec ==
    /\ now = StartTime
    /\ lastRecommendationTime = 0
    /\ shownRecommendations = {}
    /\ currentRecommendations = <<>>
    /\ shownTimers = {}
    /\ props = [type |-> "unmounted", isVisible |-> FALSE]
    /\ newRecommendations = <<>>
    /\ served = "none"
    /\ passedFilters = <<>>
    /\ dismissedRecommendations = {}
    /\ dismissTimers = {}
    /\ recommendations = <<>>
    /\ IdleLookup
    /\ IdleAdjust
    /\ IdlePose
    /\ IdlePanel

\* the body of the overlay's useEffect, run with props p, the dismissed set
\* and the engine's shown set of the render it follows
runEffect(p, dismissed, shown) ==
    IF ~p.isVisible
    THEN /\ served' = "none"
         /\ UNCHANGED <<lastRecommendationTime, currentRecommendations,
                        newRecommendations, passedFilters, recommendations>>
    ELSE LET g == generateRecommendations(contextOf(p), now, lastRecommendationTime,
                                          shown, currentRecommendations)
         IN  /\ newRecommendations' = g.result
             /\ served' = g.served
             /\ currentRecommendations' = g.current
             /\ lastRecommendationTime' = g.last
             /\ passedFilters' = g.passed
             /\ recommendations' =
                    SelectSeq(g.result, LAMBDA rec : rec.id \notin dismissed)

\* RecommendationEngine.markRecommendationShown for each id of ids, called now
markedShown(ids) == shownRecommendations \cup ids
shownTimersWith(ids) ==
    shownTimers \cup {[id |-> id, due |-> now + ShownExpiry] : id \in ids}

\* handleDismissRecommendation for each id of ids, and the effect that the
\* change of dismissedRecommendations triggers
dismiss(ids) ==
    /\ Cardinality(shownTimersWith(ids)) <= MaxPending
    /\ dismissedRecommendations' = dismissedRecommendations \cup ids
    /\ shownRecommendations' = markedShown(ids)
    /\ shownTimers' = shownTimersWith(ids)
    /\ dismissTimers' =
            dismissTimers \cup {[id |-> id, due |-> now + DismissExpiry] : id \in ids}
    /\ runEffect(props, dismissedRecommendations', shownRecommendations')
    /\ UNCHANGED <<now, props>>

\* the parent renders the overlay with new props and the effect runs
Render ==
    /\ served # "idle"
    /\ NoTimerDue
    /\ \E p \in OverlayProps :
        /\ props' = p
        /\ runEffect(p, dismissedRecommendations, shownRecommendations)
    /\ UNCHANGED <<now, shownRecommendations, shownTimers,
                   dismissedRecommendations, dismissTimers>>
    /\ UNCHANGED lookupVars
    /\ UNCHANGED adjustVars
    /\ UNCHANGED poseVars
    /\ UNCHANGED panelVars

\* the close button or the Done button of a displayed card
handleDismissRecommendation ==
    /\ props.isVisible
    /\ NoTimerDue
    /\ \E id \in idsOf(recommendations) : dismiss({id})
    /\ UNCHANGED lookupVars
    /\ UNCHANGED adjustVars
    /\ UNCHANGED poseVars
    /\ UNCHANGED panelVars

\* the 5min button of a displayed card: handleDismissRecommendation and a
\* second timeout of the same delay that deletes the same id
snoozeRecommendation ==
    /\ props.isVisible
    /\ NoTimerDue
    /\ \E id \in idsOf(recommendations) : dismiss({id})
    /\ UNCHANGED lookupVars
    /\ UNCHANGED adjustVars
    /\ UNCHANGED poseVars
    /\ UNCHANGED panelVars

\* the Dismiss All button, shown under more than one card
dismissAll ==
    /\ props.isVisible
    /\ NoTimerDue
    /\ Len(recommendations) > 1
    /\ dismiss(idsOf(recommendations))
    /\ UNCHANGED lookupVars
    /\ UNCHANGED adjustVars
    /\ UNCHANGED poseVars
    /\ UNCHANGED panelVars

\* the timeout of markRecommendationShown
shownTimeout ==
    /\ \E timer \in shownTimers :
        /\ timer.due <= now
        /\ shownRecommendations' = shownRecommendations \ {timer.id}
        /\ shownTimers' = shownTimers \ {timer}
    /\ served' = "none"
    /\ UNCHANGED <<now, lastRecommendationTime, currentRecommendations,
                   newRecommendations, passedFilters>>
    /\ UNCHANGED overlayVars
    /\ UNCHANGED lookupVars
    /\ UNCHANGED adjustVars
    /\ UNCHANGED poseVars
    /\ UNCHANGED panelVars

\* the timeout of handleDismissRecommendation, and the effect that the change
\* of dismissedRecommendations triggers
dismissTimeout ==
    /\ \E timer \in dismissTimers :
        /\ timer.due <= now
        /\ dismissedRecommendations' = dismissedRecommendations \ {timer.id}
        /\ dismissTimers' = dismissTimers \ {timer}
    /\ runEffect(props, dismissedRecommendations', shownRecommendations)
    /\ UNCHANGED <<now, props, shownRecommendations, shownTimers>>
    /\ UNCHANGED lookupVars
    /\ UNCHANGED adjustVars
    /\ UNCHANGED poseVars
    /\ UNCHANGED panelVars

\* time passes; a timeout runs as soon as it is due
Tick ==
    /\ served # "idle"
    /\ NoTimerDue
    /\ \E wait \in ShortWaits \cup {LongWait} :
        /\ wait \in ShortWaits => ((now - StartTime) % LongWait) + wait <= MaxShortWait
        /\ now + wait - StartTime <= MaxElapsed
        /\ now' = now + wait
    /\ served' = "none"
    /\ UNCHANGED <<lastRecommendationTime, shownRecommendations,
                   currentRecommendations, shownTimers, newRecommendations,
                   passedFilters>>
    /\ UNCHANGED overlayVars
    /\ UNCHANGED lookupVars
    /\ UNCHANGED adjustVars
    /\ UNCHANGED poseVars
    /\ UNCHANGED panelVars

NextRec ==
    \/ Render
    \/ handleDismissRecommendation
    \/ snoozeRecommendation
    \/ dismissAll
    \/ shownTimeout
    \/ dismissTimeout
    \/ Tick

SpecRec == InitRec /\ [][NextRec]_vars


-----------------------------------------------------------------------------
(* Properties of the recommendations *)

\* the priorities from the most to the least urgent
PriorityRank(priority) ==
    CASE priority = "critical" -> 1
      [] priority = "high" -> 2
      [] priority = "medium" -> 3
      [] priority = "low" -> 4

\* the latest handler called generateRecommendations
GenerateCalled == served \in {"recomputed", "cached"}

\* C25: every list generateRecommendations returns, computed in the call or
\* taken from the throttle cache, has at most 2 recommendations in the order
\* critical, high, medium, low; every candidate that passed the filters of
\* the computation the list comes from and is not in the list ranks no
\* higher than the recommendations in it, and is left out only when the list
\* is full.
C25_AtMostTwoByPriority ==
    GenerateCalled =>
        /\ newRecommendations = currentRecommendations
        /\ Len(newRecommendations) <= 2
        /\ \A i \in 1 .. Len(newRecommendations), j \in 1 .. Len(newRecommendations) :
                i < j => PriorityRank(newRecommendations[i].priority)
                            <= PriorityRank(newRecommendations[j].priority)
        /\ idsOf(newRecommendations) \subseteq idsOf(passedFilters)
        /\ Len(newRecommendations) = Min(2, Len(passedFilters))
        /\ \A k \in 1 .. Len(passedFilters), i \in 1 .. Len(newRecommendations) :
                passedFilters[k].id \notin idsOf(newRecommendations) =>
                    PriorityRank(newRecommendations[i].priority)
                        <= PriorityRank(passedFilters[k].priority)

\* a cached list of two, chosen from three candidates pushed as high,
\* critical, medium
C25_Witness ==
    /\ served = "cached"
    /\ Len(passedFilters) = 3
    /\ passedFilters[1].priority = "high"
    /\ passedFilters[2].priority = "critical"
    /\ Len(newRecommendations) = 2
    /\ newRecommendations[1].priority = "critical"
    /\ newRecommendations[2].priority = "high"

\* the minimum interval between two recomputations for the given props
StatedInterval(p) ==
    IF \/ p.rulaScore # {} /\ The(p.rulaScore).finalScore >= 5
       \/ p.rebaScore # {} /\ The(p.rebaScore).finalScore >= 8
    THEN 3000
    ELSE IF p.sessionDuration < 60 THEN 8000 ELSE 15000

Triggered(p) ==
    SelectSeq(candidates(contextOf(p)),
              LAMBDA rec : rec.category \in p.enabledCategories)

\* C27: a recommendation dismissed or snoozed in the overlay is not displayed
\* during the 5 minutes that follow, and a recomputation made once they have
\* passed displays it if its condition holds and no more than two
\* recommendations are triggered.
C27_DismissedReturnsAfterFiveMinutes ==
    /\ \A timer \in dismissTimers :
            timer.due > now => timer.id \notin idsOf(recommendations)
    /\ served = "recomputed" =>
            \A timer \in shownTimers :
                (/\ now >= (timer.due - ShownExpiry) + 300000
                 /\ timer.id \notin dismissedRecommendations
                 /\ timer.id \in idsOf(Triggered(props))
                 /\ Len(Triggered(props)) <= 2)
                    => timer.id \in idsOf(recommendations)

\* C30: from markRecommendationShown(id) until the expiry removes id from
\* shownRecommendations, no call of generateRecommendations returns a
\* recommendation with that id, whether it recomputes or answers from the
\* throttle cache.
C30_ShownNeverReturned ==
    GenerateCalled => idsOf(newRecommendations) \cap shownRecommendations = {}

=============================================================================
